---- MODULE Spec2Model ----
(***************************************************************************)
(* Model of the customer-support email agent: the response service         *)
(* (AIResponseService: classifier, composer, scorer, validator,            *)
(* generateResponse with its fallback) and the processing pipeline         *)
(* (CustomerSupportService.processEmail) over the Prisma tables and the    *)
(* Gmail collaborator.                                                     *)
(*                                                                         *)
(* Texts are TLA+ strings handled character by character (TLC evaluates    *)
(* Len, SubSeq and \o on strings).  Numbers of type `number` that carry a  *)
(* confidence or a score are fixed-point: Unit stands for 1.0.  The        *)
(* arithmetic is exact; the code's IEEE doubles differ from it by at most  *)
(* one unit in the last place, which no property below depends on.         *)
(***************************************************************************)
EXTENDS Integers, Sequences, FiniteSets, TLC

(***************************************************************************)
(* Bounds of the model.                                                    *)
(***************************************************************************)
\* longest query assembled from the vocabulary, in words
MaxWords == 2
\* longest list of similar responses handed to generateResponse
MaxEvidence == 2
\* most fragments appended to a text handed to validateResponse
MaxParts == 2
\* most unread emails getUnreadEmails hands processUnreadEmails
MaxBatch == 2

(***************************************************************************)
(* Fixed-point numbers.                                                    *)
(***************************************************************************)
\* 1.0; a multiple of 100 (two decimals) and of 60 (means of up to 6 values)
Unit == 6000
\* n hundredths, i.e. the literal 0.nn of the source
Hundredths(n) == n * (Unit \div 100)

(***************************************************************************)
(* JavaScript strings.                                                     *)
(***************************************************************************)
UpperLetters == "ABCDEFGHIJKLMNOPQRSTUVWXYZ"
LowerLetters == "abcdefghijklmnopqrstuvwxyz"
DigitChars == "0123456789"

CharAt(s, i) == SubSeq(s, i, i)

\* the characters of a string, as a set
CharsOf(alphabet) == {CharAt(alphabet, i) : i \in 1..Len(alphabet)}

DigitSet == CharsOf(DigitChars)
LetterSet == CharsOf(UpperLetters) \cup CharsOf(LowerLetters)

\* each upper-case letter's lower-case letter
LowerOf ==
  [c \in CharsOf(UpperLetters) |->
     CharAt(LowerLetters, CHOOSE i \in 1..Len(UpperLetters) : CharAt(UpperLetters, i) = c)]

IsDigit(c) == c \in DigitSet
IsLetter(c) == c \in LetterSet
\* \w of a regular expression
IsWordChar(c) == IsLetter(c) \/ IsDigit(c) \/ c = "_"
\* \s of a regular expression (the whitespace the texts here can hold)
IsSpace(c) == c = " " \/ c = "\n" \/ c = "\t"

LowerChar(c) == IF c \in DOMAIN LowerOf THEN LowerOf[c] ELSE c

\* String.prototype.toLowerCase
RECURSIVE toLowerCase(_)
toLowerCase(s) ==
  IF Len(s) = 0 THEN ""
  ELSE IF Len(s) = 1 THEN LowerChar(s)
  ELSE LET h == Len(s) \div 2
       IN toLowerCase(SubSeq(s, 1, h)) \o toLowerCase(SubSeq(s, h + 1, Len(s)))

\* w occurs in s at position i
OccursAt(s, w, i) == i >= 1 /\ i + Len(w) - 1 <= Len(s) /\ SubSeq(s, i, i + Len(w) - 1) = w

\* the positions where w occurs in s
Occurrences(s, w) == {i \in 1..(Len(s) - Len(w) + 1) : SubSeq(s, i, i + Len(w) - 1) = w}

\* String.prototype.includes
includes(s, w) == Occurrences(s, w) # {}

\* String.prototype.substring(0, n)
substring0(s, n) == SubSeq(s, 1, IF n < Len(s) THEN n ELSE Len(s))

\* \b of a regular expression, between the characters i-1 and i of s
WordBoundary(s, i) ==
  (i > 1 /\ IsWordChar(CharAt(s, i - 1))) # (i <= Len(s) /\ IsWordChar(CharAt(s, i)))

\* s.match(/\b(w1|w2|...)\b/) is not null, for the alternatives in words
MatchesWord(s, words) ==
  \E w \in words : \E i \in Occurrences(s, w) :
    WordBoundary(s, i) /\ WordBoundary(s, i + Len(w))

\* no line terminator in s[from..to]: what .* of a regular expression can span
SameLine(s, from, to) == \A k \in from..to : CharAt(s, k) # "\n"

\* an optional string (string | undefined) is <<>> or <<s>>
NoString == <<>>
Some(s) == <<s>>
\* `${x}` of an optional string
Interpolate(opt) == IF opt = NoString THEN "undefined" ELSE opt[1]
\* truthiness of an optional string
Truthy(opt) == opt # NoString /\ opt[1] # ""
\* opt || default
OrElse(opt, default) == IF Truthy(opt) THEN opt[1] ELSE default

(***************************************************************************)
(* Data handed to the response service.                                    *)
(***************************************************************************)
\* a fulfillment of a ShopifyOrder
Fulfillment(company, numbers, eta) ==
  [trackingCompany |-> company, trackingNumbers |-> numbers, estimatedDeliveryAt |-> eta]

\* a ShopifyOrder, with the fields the response service reads
ShopifyOrder(number, status, fulfillments, hasShippingAddress) ==
  [orderNumber |-> number, fulfillmentStatus |-> status, fulfillments |-> fulfillments,
   hasShippingAddress |-> hasShippingAddress]

\* a SimilarResponse: similarity is k twentieths (k * 0.05)
SimilarResponse(k) == [similarity |-> k]

\* new Date(iso).toLocaleDateString() for an ISO date "YYYY-MM-DD" (en-US)
toLocaleDateString(iso) ==
  LET strip(t) == IF CharAt(t, 1) = "0" THEN SubSeq(t, 2, 2) ELSE t
  IN strip(SubSeq(iso, 6, 7)) \o "/" \o strip(SubSeq(iso, 9, 10)) \o "/" \o SubSeq(iso, 1, 4)

(***************************************************************************)
(* Intent classifier: AIResponseService.analyzeCustomerQuery.              *)
(***************************************************************************)
StatusTerms ==
  {"status", "where", "when", "delivered", "arrive", "shipped", "shipping",
   "delivery", "tracking", "track"}
TrackingTerms == {"track", "tracking", "number"}
ReturnTerms ==
  {"return", "refund", "exchange", "cancel", "defective", "wrong", "broken", "damaged"}
ProductTerms ==
  {"blue light", "prescription", "lens", "frame", "size", "fit", "color", "style",
   "recommend"}
ComplaintTerms ==
  {"problem", "issue", "complaint", "disappointed", "unhappy", "terrible", "awful",
   "angry", "frustrated"}
UrgencyTerms == {"urgent", "asap", "immediately", "emergency", "help", "please help"}

\* [A-Z0-9-] under the i flag
IsOrderTokenChar(c) == IsLetter(c) \/ IsDigit(c) \/ c = "-"

\* the last position j >= k with s[k..j] all order-token characters
TokenEnd(s, k) ==
  CHOOSE j \in k..Len(s) :
    /\ \A m \in k..j : IsOrderTokenChar(CharAt(s, m))
    /\ (j = Len(s) \/ ~IsOrderTokenChar(CharAt(s, j + 1)))

\* where (?:order|#) matched at i ends, plus one; 0 when it does not match at i
OrderPrefixEnd(s, i) ==
  IF OccursAt(toLowerCase(SubSeq(s, i, IF i + 4 <= Len(s) THEN i + 4 ELSE Len(s))), "order", 1)
  THEN i + 5
  ELSE IF CharAt(s, i) = "#" THEN i + 1 ELSE 0

\* the starts k of the capture group for a match of
\* /(?:order|#)\s*([A-Z0-9-]+)/i beginning at i
OrderCaptureStarts(s, i) ==
  LET a == OrderPrefixEnd(s, i)
  IN IF a = 0 THEN {}
     ELSE {k \in a..Len(s) :
             /\ \A m \in a..(k - 1) : IsSpace(CharAt(s, m))
             /\ IsOrderTokenChar(CharAt(s, k))}

\* query.match(/(?:order|#)\s*([A-Z0-9-]+)/i): group 1 of the leftmost match,
\* \s* and the group both greedy; NoString when there is no match
OrderMatch(query) ==
  LET starts == {i \in 1..Len(query) : OrderCaptureStarts(query, i) # {}}
  IN IF starts = {} THEN NoString
     ELSE LET i == CHOOSE x \in starts : \A y \in starts : x <= y
              ks == OrderCaptureStarts(query, i)
              k == CHOOSE x \in ks : \A y \in ks : x >= y
          IN Some(SubSeq(query, k, TokenEnd(query, k)))

\* the status block (lines 204-211) applied to the analysis a
ApplyStatusTerms(a, lowerQuery) ==
  IF MatchesWord(lowerQuery, StatusTerms)
  THEN [a EXCEPT !.keywords = @ \o <<"status", "shipping">>,
                 !.intent = IF MatchesWord(lowerQuery, TrackingTerms)
                            THEN "shipping_tracking" ELSE "order_status"]
  ELSE a

\* a return/refund block that leaves requiresEscalation alone
ApplyReturnTermsWithoutEscalation(a, lowerQuery) ==
  IF MatchesWord(lowerQuery, {"return", "refund", "exchange", "cancel", "defective",
                              "wrong", "broken", "damaged"})
  THEN [a EXCEPT !.keywords = @ \o <<"return", "refund">>, !.intent = "return_refund"]
  ELSE a

\* the return/refund block (lines 214-218)
ApplyReturnTerms(a, lowerQuery) ==
  IF MatchesWord(lowerQuery, ReturnTerms)
  THEN [a EXCEPT !.keywords = @ \o <<"return", "refund">>,
                 !.intent = "return_refund",
                 !.requiresEscalation = TRUE]
  ELSE a

\* the product block (lines 221-224)
ApplyProductTerms(a, lowerQuery) ==
  IF MatchesWord(lowerQuery, ProductTerms)
  THEN [a EXCEPT !.keywords = @ \o <<"product">>, !.intent = "product_inquiry"]
  ELSE a

\* the complaint block (lines 227-232)
ApplyComplaintTerms(a, lowerQuery) ==
  IF MatchesWord(lowerQuery, ComplaintTerms)
  THEN [a EXCEPT !.keywords = @ \o <<"complaint">>,
                 !.intent = "complaint_issue",
                 !.urgency = "high",
                 !.requiresEscalation = TRUE]
  ELSE a

\* an urgency block that raises the urgency and leaves requiresEscalation
ApplyUrgencyTermsToUrgencyOnly(a, lowerQuery) ==
  IF MatchesWord(lowerQuery, UrgencyTerms)
  THEN [a EXCEPT !.urgency = "high"]
  ELSE a

\* the urgency block (lines 235-238)
ApplyUrgencyTerms(a, lowerQuery) ==
  IF MatchesWord(lowerQuery, UrgencyTerms)
  THEN [a EXCEPT !.urgency = "high", !.requiresEscalation = TRUE]
  ELSE a

\* the classifier with the complaint block tested before the product block
analyzeComplaintBeforeProduct(query) ==
  LET lowerQuery == toLowerCase(query)
      start == [intent |-> "general_inquiry",
                keywords |-> <<>>,
                orderNumber |-> OrderMatch(query),
                urgency |-> "medium",
                requiresEscalation |-> FALSE]
  IN ApplyUrgencyTerms(
       ApplyProductTerms(
         ApplyComplaintTerms(
           ApplyReturnTerms(
             ApplyStatusTerms(start, lowerQuery), lowerQuery), lowerQuery), lowerQuery), lowerQuery)

analyzeCustomerQuery(query) ==
  LET lowerQuery == toLowerCase(query)
      start == [intent |-> "general_inquiry",
                keywords |-> <<>>,
                orderNumber |-> OrderMatch(query),
                urgency |-> "medium",
                requiresEscalation |-> FALSE]
  IN ApplyUrgencyTerms(
       ApplyComplaintTerms(
         ApplyProductTerms(
           ApplyReturnTerms(
             ApplyStatusTerms(start, lowerQuery), lowerQuery), lowerQuery), lowerQuery), lowerQuery)

(***************************************************************************)
(* Response composer: the per-intent template functions.                   *)
(***************************************************************************)
\* const name = customerName ? ` ${customerName}` : ''
Greeting(customerName) == IF Truthy(customerName) THEN " " \o customerName[1] ELSE ""

getOrderStatusDetails(order) ==
  CASE order.fulfillmentStatus = "shipped" ->
         "Your order has been shipped and is on its way to you!"
    [] order.fulfillmentStatus = "delivered" -> "Your order has been delivered."
    [] order.fulfillmentStatus = "pending" ->
         "Your order is being prepared and will ship soon."
    [] order.fulfillmentStatus = "processing" ->
         "Your order is currently being processed."
    [] OTHER -> "Your order is being handled by our team."

generateOrderStatusResponse(customerName, query, orderData, analysis) ==
  LET name == Greeting(customerName)
  IN IF Len(orderData) > 0
     THEN LET order == orderData[1]
          IN "Hi" \o name \o ", thank you for your inquiry about your order. I can see you have order #"
             \o order.orderNumber \o " with a " \o order.fulfillmentStatus \o " status. "
             \o getOrderStatusDetails(order)
             \o " Our team will provide you with any additional updates you need. If you have any other questions, please let us know!"
     ELSE IF Truthy(analysis.orderNumber)
     THEN "Hi" \o name \o ", thank you for asking about order #" \o analysis.orderNumber[1]
          \o ". I'm looking up the details for this order and will get back to you within 30 minutes with a complete status update. If this is urgent, please call our customer service line at your convenience."
     ELSE "Hi" \o name \o ", thank you for your order status inquiry. To provide you with accurate information, I'll need to look up your order details. Could you please provide your order number? Alternatively, our customer service team can help you immediately by phone."

\* the reply of generateShippingResponse for a customer with no order, given
\* whatever the order data
generateShippingResponseAskingForNumber(customerName, query, orderData, analysis) ==
  "Hi" \o Greeting(customerName) \o ", I'd be happy to help you track your order! Could you please provide your order number so I can give you the most up-to-date tracking information? Our customer service team is also available to assist you immediately."

generateShippingResponse(customerName, query, orderData, analysis) ==
  LET name == Greeting(customerName)
  IN IF Len(orderData) > 0
     THEN LET order == orderData[1]
          IN IF Len(order.fulfillments) > 0
             THEN LET fulfillment == order.fulfillments[1]
                      tracking == IF Len(fulfillment.trackingNumbers) > 0
                                  THEN Some(fulfillment.trackingNumbers[1]) ELSE NoString
                  IN "Hi" \o name \o ", your order #" \o order.orderNumber \o " has shipped! "
                     \o (IF Truthy(tracking)
                         THEN "Your tracking number is " \o tracking[1] \o " with "
                              \o Interpolate(fulfillment.trackingCompany) \o "."
                         ELSE "You should receive tracking information shortly.")
                     \o " "
                     \o (IF Truthy(fulfillment.estimatedDeliveryAt)
                         THEN "Expected delivery: "
                              \o toLocaleDateString(fulfillment.estimatedDeliveryAt[1]) \o "."
                         ELSE "")
                     \o " You can track your package directly on the carrier's website."
             ELSE "Hi" \o name \o ", your order #" \o order.orderNumber
                  \o " is currently being prepared for shipment. You'll receive tracking information as soon as it ships, typically within 1-2 business days. Thank you for your patience!"
     ELSE "Hi" \o name \o ", I'd be happy to help you track your order! Could you please provide your order number so I can give you the most up-to-date tracking information? Our customer service team is also available to assist you immediately."

generateReturnRefundResponse(customerName, query, orderData, analysis) ==
  "Hi" \o Greeting(customerName)
  \o ", I understand you'd like to discuss a return or refund. We offer a 30-day return policy and want to make this process as easy as possible for you. Our customer service team will review your specific situation and provide you with return instructions and a prepaid shipping label if needed. You'll hear back from us within 2 hours, or feel free to call our customer service line for immediate assistance."

generateProductInquiryResponse(customerName, query, orderData, analysis) ==
  LET productSpecific ==
        IF includes(toLowerCase(query), "blue light")
        THEN " Our blue light glasses filter 90% of harmful blue light and can significantly reduce eye strain from digital screens."
        ELSE IF includes(toLowerCase(query), "prescription")
        THEN " We work with licensed opticians to ensure your prescription is perfectly crafted for your new frames."
        ELSE ""
  IN "Hi" \o Greeting(customerName) \o ", thank you for your interest in our eyewear products!"
     \o productSpecific
     \o " Our customer service team will provide you with detailed information to help you make the best choice for your needs. You'll receive a comprehensive response within 2-4 hours, or call us for immediate assistance with product selection."

generateComplaintResponse(customerName, query, orderData, analysis) ==
  "Hi" \o Greeting(customerName)
  \o ", I sincerely apologize for any inconvenience you've experienced. Your concern is very important to us, and I want to make sure we resolve this properly. A senior customer service representative will personally review your case and contact you within 1 hour to discuss how we can make this right. If you prefer immediate assistance, please call our customer service line and mention this is a priority case."

generateGeneralResponse(customerName, query, orderData, analysis) ==
  LET name == Greeting(customerName)
      lowerQuery == toLowerCase(query)
  IN IF includes(lowerQuery, "hours") \/ includes(lowerQuery, "open") \/ includes(lowerQuery, "when")
     THEN "Hi" \o name \o ", thank you for your inquiry! Our customer service team is available Monday-Friday 9 AM to 6 PM EST. You can also reach us anytime through this email system, and we typically respond within a few hours during business days. How can we help you today?"
     ELSE IF includes(lowerQuery, "policy") \/ includes(lowerQuery, "return") \/ includes(lowerQuery, "warranty")
     THEN "Hi" \o name \o ", thank you for asking about our policies! We offer a 30-day return policy for all our eyewear products. If you're not completely satisfied, you can return items in original condition for a full refund or exchange. Our customer service team can provide detailed policy information and help with any returns. What specific information do you need?"
     ELSE IF includes(lowerQuery, "prescription") \/ includes(lowerQuery, "glasses") \/ includes(lowerQuery, "lens")
     THEN "Hi" \o name \o ", thank you for your interest in our eyewear! We offer both prescription and non-prescription glasses, including blue light blocking lenses. Our team can help you with frame selection, lens options, and prescription requirements. What specific questions do you have about our products?"
     ELSE IF includes(lowerQuery, "shipping") \/ includes(lowerQuery, "delivery") \/ includes(lowerQuery, "cost")
     THEN "Hi" \o name \o ", thank you for your shipping inquiry! We offer free standard shipping on orders over $50, with delivery typically taking 5-7 business days. Expedited shipping options are also available. Our team can provide specific shipping details and costs for your location. What would you like to know?"
     ELSE "Hi" \o name \o ", thank you for reaching out! I've received your message regarding \""
          \o (IF Len(query) > 50 THEN substring0(query, 50) \o "..." ELSE query)
          \o "\" and I want to make sure we provide you with the most helpful response. Our customer service team is reviewing your specific question and will get back to you shortly with detailed information. Is there anything urgent I can help you with right now?"

(***************************************************************************)
(* Confidence scorer: AIResponseService.calculateConfidence.               *)
(***************************************************************************)
RECURSIVE SumSimilarity(_)
\* similarResponses.reduce((sum, r) => sum + r.similarity, 0), in twentieths
SumSimilarity(rs) == IF rs = <<>> THEN 0 ELSE rs[1].similarity + SumSimilarity(Tail(rs))

\* avgSimilarity * 0.2 in fixed point: (sum/20 / n) * 0.2 * Unit
SimilarityBonus(rs) == (SumSimilarity(rs) * (Unit \div 100)) \div Len(rs)

\* the pattern with a bare 'order' in place of an order followed by #digits
MentionsDetailsOrOrderWord(response) ==
  LET low == toLowerCase(response)
  IN \/ includes(low, "tracking")
     \/ includes(low, "delivery")
     \/ includes(low, "shipping")
     \/ includes(low, "order")

\* response.match(/tracking|order.*#\d+|delivery|shipping/i) is not null
MentionsDetails(response) ==
  LET low == toLowerCase(response)
  IN \/ includes(low, "tracking")
     \/ includes(low, "delivery")
     \/ includes(low, "shipping")
     \/ \E i \in Occurrences(low, "order") :
          \E j \in (i + 5)..(Len(low) - 1) :
            /\ CharAt(low, j) = "#"
            /\ IsDigit(CharAt(low, j + 1))
            /\ SameLine(low, i + 5, j - 1)

\* the sum returned as it is, without the clamp
Unclamped(x) == x

\* Math.max(0, Math.min(1, confidence))
Clamp01(x) == IF x < 0 THEN 0 ELSE IF x > Unit THEN Unit ELSE x

\* calculateConfidence with a detail bonus of 0.2
calculateConfidenceWithDoubleDetailBonus(response, orderData, similarResponses) ==
  Clamp01(
    Hundredths(50)
    + (IF Len(orderData) > 0 THEN Hundredths(30) ELSE 0)
    + (IF Len(similarResponses) > 0 THEN SimilarityBonus(similarResponses) ELSE 0)
    - (IF Len(response) < 50 THEN Hundredths(20) ELSE 0)
    - (IF includes(response, "[") \/ includes(response, "{{") \/ includes(response, "PLACEHOLDER")
       THEN Hundredths(30) ELSE 0)
    + (IF MentionsDetails(response) THEN Hundredths(20) ELSE 0))

calculateConfidence(response, orderData, similarResponses) ==
  Clamp01(
    Hundredths(50)
    + (IF Len(orderData) > 0 THEN Hundredths(30) ELSE 0)
    + (IF Len(similarResponses) > 0 THEN SimilarityBonus(similarResponses) ELSE 0)
    - (IF Len(response) < 50 THEN Hundredths(20) ELSE 0)
    - (IF includes(response, "[") \/ includes(response, "{{") \/ includes(response, "PLACEHOLDER")
       THEN Hundredths(30) ELSE 0)
    + (IF MentionsDetails(response) THEN Hundredths(10) ELSE 0))

RECURSIVE JoinWith(_, _)
\* Array.prototype.join
JoinWith(parts, sep) ==
  IF parts = <<>> THEN ""
  ELSE IF Len(parts) = 1 THEN parts[1]
  ELSE parts[1] \o sep \o JoinWith(Tail(parts), sep)

RECURSIVE NumberString(_)
\* Number.prototype.toString for a natural number
NumberString(n) ==
  IF n < 10 THEN CharAt(DigitChars, n + 1)
  ELSE NumberString(n \div 10) \o CharAt(DigitChars, (n % 10) + 1)

\* (avgSimilarity * 100).toFixed(1): the mean of twentieths as a percentage
AvgSimilarityPercent(rs) ==
  LET tenths == ((SumSimilarity(rs) * 100) \div Len(rs) + 1) \div 2
  IN NumberString(tenths \div 10) \o "." \o NumberString(tenths % 10)

extractReasoning(response, orderData, similarResponses) ==
  JoinWith(
    (IF Len(orderData) > 0
     THEN <<"Found " \o NumberString(Len(orderData)) \o " order(s) for customer">>
     ELSE <<"No order data available">>)
    \o (IF Len(similarResponses) > 0
        THEN <<NumberString(Len(similarResponses)) \o " similar responses found (avg similarity: "
               \o AvgSimilarityPercent(similarResponses) \o "%)">>
        ELSE <<>>)
    \o (IF Len(response) < 50 THEN <<"Response may be too brief">> ELSE <<>>)
    \o (IF includes(response, "[") \/ includes(response, "{{")
        THEN <<"Response contains placeholders">> ELSE <<>>),
    "; ")

(***************************************************************************)
(* Response validator: AIResponseService.validateResponse.                 *)
(***************************************************************************)
\* response.match(/\[.*\]|\{\{.*\}\}|PLACEHOLDER|TODO|XXX/i) is not null
HasPlaceholderMarker(response) ==
  LET low == toLowerCase(response)
      Bracketed(open, close) ==
        \E i \in Occurrences(low, open) :
          \E j \in Occurrences(low, close) :
            j >= i + Len(open) /\ SameLine(low, i + Len(open), j - 1)
  IN \/ Bracketed("[", "]")
     \/ Bracketed("{{", "}}")
     \/ includes(low, "placeholder")
     \/ includes(low, "todo")
     \/ includes(low, "xxx")

professionalWords == <<"thank you", "appreciate", "help", "assist", "sorry", "apologize">>

\* response.match(/#\d+|order.*\d+/i) is not null
HasOrderDetails(response) ==
  LET low == toLowerCase(response)
  IN \/ \E i \in Occurrences(low, "#") : IsDigit(CharAt(low, i + 1))
     \/ \E i \in Occurrences(low, "order") :
          \E j \in (i + 5)..Len(low) :
            IsDigit(CharAt(low, j)) /\ SameLine(low, i + 5, j - 1)

\* validateResponse with every warning counted as an issue
validateResponseFailingOnWarnings(response) ==
  LET hasProffessionalTone ==
        \E k \in 1..Len(professionalWords) : includes(toLowerCase(response), professionalWords[k])
      flaws ==
        (IF Len(response) < 30 THEN 1 ELSE 0)
        + (IF HasPlaceholderMarker(response) THEN 1 ELSE 0)
        + (IF Len(response) > 1000 THEN 1 ELSE 0)
        + (IF ~hasProffessionalTone THEN 1 ELSE 0)
        + (IF includes(response, "your order") /\ ~HasOrderDetails(response) THEN 1 ELSE 0)
  IN [isValid |-> flaws = 0,
      issues |-> <<>>,
      warnings |-> <<>>,
      score |-> Unit - flaws * Hundredths(10)]

\* validateResponse with a warning weighing 0.2
validateResponseWeighingWarningsDouble(response) ==
  LET issues ==
        (IF Len(response) < 30 THEN <<"Response is too short">> ELSE <<>>)
        \o (IF HasPlaceholderMarker(response)
            THEN <<"Response contains placeholders or incomplete information">> ELSE <<>>)
      hasProffessionalTone ==
        \E k \in 1..Len(professionalWords) : includes(toLowerCase(response), professionalWords[k])
      warnings ==
        (IF Len(response) > 1000 THEN <<"Response is quite long">> ELSE <<>>)
        \o (IF ~hasProffessionalTone
            THEN <<"Response may lack professional courtesy words">> ELSE <<>>)
        \o (IF includes(response, "your order") /\ ~HasOrderDetails(response)
            THEN <<"Response mentions order but lacks specific order details">> ELSE <<>>)
      raw == Unit - Len(issues) * Hundredths(30) - Len(warnings) * Hundredths(20)
  IN [isValid |-> Len(issues) = 0,
      issues |-> issues,
      warnings |-> warnings,
      score |-> IF raw < 0 THEN 0 ELSE raw]

validateResponse(response) ==
  LET issues ==
        (IF Len(response) < 30 THEN <<"Response is too short">> ELSE <<>>)
        \o (IF HasPlaceholderMarker(response)
            THEN <<"Response contains placeholders or incomplete information">> ELSE <<>>)
      hasProffessionalTone ==
        \E k \in 1..Len(professionalWords) : includes(toLowerCase(response), professionalWords[k])
      warnings ==
        (IF Len(response) > 1000 THEN <<"Response is quite long">> ELSE <<>>)
        \o (IF ~hasProffessionalTone
            THEN <<"Response may lack professional courtesy words">> ELSE <<>>)
        \o (IF includes(response, "your order") /\ ~HasOrderDetails(response)
            THEN <<"Response mentions order but lacks specific order details">> ELSE <<>>)
      raw == Unit - Len(issues) * Hundredths(30) - Len(warnings) * Hundredths(10)
  IN [isValid |-> Len(issues) = 0,
      issues |-> issues,
      warnings |-> warnings,
      score |-> IF raw < 0 THEN 0 ELSE raw]

(***************************************************************************)
(* Generation orchestrator: AIResponseService.generateResponse and its     *)
(* fallback.                                                               *)
(***************************************************************************)
\* the parameter object of generateResponse
Params(query, email, name, orderData, similarResponses, category, context) ==
  [customerQuery |-> query, customerEmail |-> email, customerName |-> name,
   orderData |-> orderData, similarResponses |-> similarResponses,
   category |-> category, context |-> context]

\* an AIGeneratedResponse
AIGeneratedResponse(response, confidence, reasoning, shouldEscalate, promptUsed, modelUsed, tokensUsed) ==
  [response |-> response, confidence |-> confidence, reasoning |-> reasoning,
   shouldEscalate |-> shouldEscalate, promptUsed |-> promptUsed,
   modelUsed |-> modelUsed, tokensUsed |-> tokensUsed]

\* the base confidence of general_inquiry given to every intent
FallbackConfidenceOfGeneralInquiry(intent) == Hundredths(60)

\* the confidence each branch of the switch assigns (lines 137-168)
FallbackConfidence(intent) ==
  CASE intent = "order_status" -> Hundredths(75)
    [] intent = "shipping_tracking" -> Hundredths(75)
    [] intent = "return_refund" -> Hundredths(70)
    [] intent = "product_inquiry" -> Hundredths(65)
    [] intent = "complaint_issue" -> Hundredths(80)
    [] OTHER -> Hundredths(60)

\* a switch that follows the caller's category where it names order status
FallbackTextByCategory(params, queryAnalysis) ==
  LET n == params.customerName
      q == params.customerQuery
      o == params.orderData
  IN IF params.category = Some("ORDER_STATUS")
     THEN generateOrderStatusResponse(n, q, o, queryAnalysis)
     ELSE generateGeneralResponse(n, q, o, queryAnalysis)

\* the text each branch of the switch composes (lines 137-168)
FallbackText(params, queryAnalysis) ==
  LET n == params.customerName
      q == params.customerQuery
      o == params.orderData
  IN CASE queryAnalysis.intent = "order_status" -> generateOrderStatusResponse(n, q, o, queryAnalysis)
       [] queryAnalysis.intent = "shipping_tracking" -> generateShippingResponse(n, q, o, queryAnalysis)
       [] queryAnalysis.intent = "return_refund" -> generateReturnRefundResponse(n, q, o, queryAnalysis)
       [] queryAnalysis.intent = "product_inquiry" -> generateProductInquiryResponse(n, q, o, queryAnalysis)
       [] queryAnalysis.intent = "complaint_issue" -> generateComplaintResponse(n, q, o, queryAnalysis)
       [] OTHER -> generateGeneralResponse(n, q, o, queryAnalysis)

\* confidence < 0.7
BelowThreshold(confidence) == confidence < Hundredths(70)

generateFallbackResponse(params, errorType) ==
  LET queryAnalysis == analyzeCustomerQuery(params.customerQuery)
      confidence == FallbackConfidence(queryAnalysis.intent)
      reasoning == "Intelligent fallback response (" \o errorType \o ") - detected intent: "
                   \o queryAnalysis.intent \o ", keywords: "
                   \o JoinWith(queryAnalysis.keywords, ", ")
  IN AIGeneratedResponse(
       FallbackText(params, queryAnalysis),
       confidence,
       reasoning \o (IF Len(params.orderData) > 0 THEN " with order data" ELSE ""),
       queryAnalysis.requiresEscalation \/ BelowThreshold(confidence),
       "Smart fallback analysis - Intent: " \o queryAnalysis.intent,
       "intelligent_fallback",
       0)

\* Array.prototype.slice(0, 3)
FirstThree(xs) == SubSeq(xs, 1, IF Len(xs) < 3 THEN Len(xs) ELSE 3)

\* buildPrompt reads order.shippingAddress.city of each of the first three
\* orders: a TypeError when an order came without a shipping address
buildPromptThrows(params) ==
  \E k \in 1..Len(FirstThree(params.orderData)) : ~params.orderData[k].hasShippingAddress

\* (similarity * 100).toFixed(1) for a similarity of k twentieths
SimilarityPercent(k) == NumberString(k * 5) \o ".0"

RECURSIVE PromptOrders(_, _)
\* the block of each order from the index-th on, with the fields modelled
PromptOrders(orders, index) ==
  IF index > Len(orders) THEN ""
  ELSE LET order == orders[index]
           latestFulfillment == order.fulfillments[1]
       IN "\nOrder " \o NumberString(index) \o ":\n- Order Number: " \o order.orderNumber
          \o "\n- Status: " \o order.fulfillmentStatus \o "\n"
          \o (IF Len(order.fulfillments) > 0
              THEN "- Shipping: "
                   \o OrElse(latestFulfillment.trackingCompany, "Standard Shipping")
                   \o (IF Len(latestFulfillment.trackingNumbers) > 0
                       THEN " (Tracking: " \o latestFulfillment.trackingNumbers[1] \o ")"
                       ELSE "")
                   \o (IF Truthy(latestFulfillment.estimatedDeliveryAt)
                       THEN " - ETA: " \o toLocaleDateString(latestFulfillment.estimatedDeliveryAt[1])
                       ELSE "")
                   \o "\n"
              ELSE "")
          \o PromptOrders(orders, index + 1)

RECURSIVE PromptReferences(_, _)
PromptReferences(rs, index) ==
  IF index > Len(rs) THEN ""
  ELSE "\nReference " \o NumberString(index) \o " (Similarity: "
       \o SimilarityPercent(rs[index].similarity) \o "%):\n"
       \o PromptReferences(rs, index + 1)

\* the prompt: the text around the parts it embeds; the eight instructions
\* that end it are the same in every prompt and stand as one line
buildPrompt(params) ==
  "\nCustomer Support Query Analysis:\n\nCustomer: "
  \o OrElse(params.customerName, params.customerEmail)
  \o "\nEmail: " \o params.customerEmail
  \o "\nQuery Category: " \o OrElse(params.category, "Unknown")
  \o "\n\nCustomer Message:\n\"" \o params.customerQuery \o "\"\n"
  \o (IF Truthy(params.context)
      THEN "\nAdditional Context:\n" \o params.context[1] \o "\n" ELSE "")
  \o (IF Len(params.orderData) > 0
      THEN "\nCustomer Order Information:\n" \o PromptOrders(FirstThree(params.orderData), 1)
      ELSE "\nNo order information found for this customer.\n")
  \o (IF Len(params.similarResponses) > 0
      THEN "\nSimilar Past Responses (for reference):\n"
           \o PromptReferences(FirstThree(params.similarResponses), 1)
      ELSE "")
  \o "\nInstructions:\nGenerate only the response text (no additional formatting or explanations):"

\* what the provider call ends with: a completion or a thrown error
Completion(content, tokens) ==
  [ok |-> TRUE, content |-> content, tokens |-> tokens, status |-> 0, code |-> ""]
ProviderError(status, code) ==
  [ok |-> FALSE, content |-> NoString, tokens |-> 0, status |-> status, code |-> code]
\* the TypeError thrown inside the try block before the provider is called
TypeError == ProviderError(0, "")

\* the chain of tests of the catch block (lines 79-112)
ErrorType(error) ==
  IF error.status = 429 \/ error.code = "insufficient_quota" \/ error.code = "rate_limit_exceeded"
  THEN "rate_limit"
  ELSE IF error.status = 401 \/ error.code = "invalid_api_key"
  THEN "auth_error"
  ELSE IF error.status = 503 \/ error.status = 502 \/ error.code = "service_unavailable"
  THEN "service_unavailable"
  ELSE IF error.status = 400 \/ error.code = "invalid_request_error"
  THEN "invalid_request"
  ELSE IF error.code = "context_length_exceeded"
  THEN "context_too_long"
  ELSE IF error.code = "ECONNREFUSED" \/ error.code = "ENOTFOUND" \/ error.code = "ETIMEDOUT"
  THEN "network_error"
  ELSE "unknown_error"

\* what generateResponse hands its caller: a value, or an exception
Returned(value) == [raised |-> FALSE, value |-> value]
Raised == [raised |-> TRUE, value |-> AIGeneratedResponse("", 0, "", FALSE, "", "", 0)]

\* a catch block that lets the errors it does not recognise escape
CatchBlockRethrowingUnknown(params, error) ==
  IF ErrorType(error) = "unknown_error" THEN Raised
  ELSE Returned(generateFallbackResponse(params, ErrorType(error)))

\* the catch block of generateResponse (lines 75-113)
CatchBlock(params, error) == Returned(generateFallbackResponse(params, ErrorType(error)))

\* the whitespace String.prototype.trim removes, from both ends
RECURSIVE trim(_)
trim(s) ==
  IF Len(s) = 0 THEN s
  ELSE IF IsSpace(CharAt(s, 1)) THEN trim(SubSeq(s, 2, Len(s)))
  ELSE IF IsSpace(CharAt(s, Len(s))) THEN trim(SubSeq(s, 1, Len(s) - 1))
  ELSE s

\* the rest of the try block once the provider has answered (lines 63-74)
OnCompletion(params, completion) ==
  LET responseText == IF Truthy(completion.content) THEN trim(completion.content[1]) ELSE ""
      confidence == calculateConfidence(responseText, params.orderData, params.similarResponses)
  IN Returned(AIGeneratedResponse(
       responseText,
       confidence,
       extractReasoning(responseText, params.orderData, params.similarResponses),
       BelowThreshold(confidence),
       buildPrompt(params),
       "gpt-4o",
       completion.tokens))

\* generateResponse as a whole, given how the provider call ends
generateResponse(params, outcome) ==
  IF buildPromptThrows(params) THEN CatchBlock(params, TypeError)
  ELSE IF outcome.ok THEN OnCompletion(params, outcome)
  ELSE CatchBlock(params, outcome)

(***************************************************************************)
(* Inputs.                                                                 *)
(***************************************************************************)
\* words the assembled queries are made of: one per term group, the two
\* introducers of an order number, and a word of no group
Vocabulary ==
  {"shipped", "tracking", "refund", "lens", "disappointed", "urgent", "order",
   "#A-1", "hours"}

RECURSIVE QueriesOfLength(_)
\* the queries of n words of the vocabulary, separated by blanks
QueriesOfLength(n) ==
  IF n = 1 THEN Vocabulary
  ELSE {q \o " " \o w : q \in QueriesOfLength(n - 1), w \in Vocabulary}

AssembledQueries == UNION {QueriesOfLength(n) : n \in 1..MaxWords}

\* queries of the specification, of the tests, and near misses of the patterns
SampleQueries ==
  {"My order #BLG-2024-001 hasn't arrived",
   "order number 1001",
   "Can you give me tracking for my order?",
   "What are your store hours?",
   "I was shipped the wrong frame and I am disappointed, please help",
   "Where is my refund for the broken lens",
   "Do you have blue light glasses in a different color",
   "ORDER 55 unshipped disappointedly",
   "I placed two orders last week"}

\* the queries tried with every order record, name and evidence list
ContextQueries ==
  {"Can you give me tracking for my order?",
   "My order #BLG-2024-001 hasn't arrived",
   "When will it be delivered"}

ShippedOrder ==
  ShopifyOrder("BLG-2024-456", "shipped",
               <<Fulfillment(Some("FedEx"), <<"123">>, Some("2025-07-04"))>>, TRUE)
PendingOrder == ShopifyOrder("1001", "pending", <<>>, TRUE)
UntrackedOrder ==
  ShopifyOrder("1002", "fulfilled", <<Fulfillment(NoString, <<>>, NoString)>>, TRUE)
PickupOrder == ShopifyOrder("1003", "delivered", <<>>, FALSE)
\* a tracking number and no carrier
UnnamedCarrierOrder ==
  ShopifyOrder("1004", "shipped", <<Fulfillment(NoString, <<"77">>, NoString)>>, TRUE)

OrderDataChoices ==
  {<<>>, <<ShippedOrder>>, <<PendingOrder, ShippedOrder>>, <<UntrackedOrder>>, <<PickupOrder>>,
   <<UnnamedCarrierOrder>>}

\* similarities 0, 0.55 and 1
SimilarityChoices == {SimilarResponse(0), SimilarResponse(11), SimilarResponse(20)}

RECURSIVE EvidenceOfLength(_)
EvidenceOfLength(n) ==
  IF n = 0 THEN {<<>>}
  ELSE {Append(e, r) : e \in EvidenceOfLength(n - 1), r \in SimilarityChoices}

EvidenceLists == UNION {EvidenceOfLength(n) : n \in 0..MaxEvidence}

CustomerNames == {NoString, Some("Sam")}

GenInputs ==
  {Params(q, "sam@example.com", NoString, <<>>, <<>>, NoString, NoString) :
     q \in AssembledQueries \cup SampleQueries}
  \cup
  {Params(q, "sam@example.com", n, o, e, Some("ORDER_STATUS"), Some("Subject: Help")) :
     q \in ContextQueries, n \in CustomerNames, o \in OrderDataChoices, e \in EvidenceLists}

\* texts the provider may answer with
LongReply ==
  "Thank you for reaching out! Your order #1001 has shipped with FedEx and the tracking number is 123."
PlainReply ==
  "We have looked into the matter and everything is fine with the account you asked about."
PlaceholderReply ==
  "Dear [NAME], we are sorry. Your parcel {{ORDER}} is a PLACEHOLDER until we know more about it."
Completions ==
  {Completion(NoString, 0),
   Completion(Some("  Thanks!  "), 12),
   Completion(Some("[TODO]"), 7),
   Completion(Some(LongReply), 120),
   Completion(Some(PlainReply), 95),
   Completion(Some(PlaceholderReply), 101)}

\* errors of each class of the catch block, two of them of two classes at once
ProviderErrors ==
  {ProviderError(429, ""), ProviderError(0, "insufficient_quota"),
   ProviderError(401, "context_length_exceeded"), ProviderError(503, ""),
   ProviderError(400, "ETIMEDOUT"), ProviderError(0, "context_length_exceeded"),
   ProviderError(0, "ECONNREFUSED"), ProviderError(500, ""), ProviderError(0, "")}

(***************************************************************************)
(* State.                                                                  *)
(***************************************************************************)
VARIABLES
  genParams,      \* the params of the generateResponse invocation under way
  genPc,          \* where that invocation is: "start", "awaiting", "done"
  genOutcome,     \* how its provider call ended: <<>> until it has
  genResult,      \* what it handed its caller: <<>> until it has
  genAnalysis,    \* the analysis its fallback made of the query: <<>> if none
  providerCalls   \* provider calls it has made

genVars == <<genParams, genPc, genOutcome, genResult, genAnalysis, providerCalls>>

VARIABLES
  customerEmails, \* the CustomerEmail table
  conversations,  \* the Conversation table
  aiResponses,    \* the AIResponse table
  appConfig,      \* the AppConfig row of the shop
  sentReplies,    \* the replies Gmail has sent, in order
  drafts,         \* the drafts Gmail holds, in order
  worker,         \* each worker's processEmail invocation: its position and locals
  calls,          \* the processEmail invocations so far, in the order they began
  faults          \* database calls that have been rejected

VARIABLES
  valResponse,    \* the text handed to validateResponse, while it is put together
  valParts,       \* fragments appended to it so far
  valResult       \* what validateResponse returned for it: <<>> until it has

valVars == <<valResponse, valParts, valResult>>

VARIABLES
  batch           \* the processUnreadEmails invocation: its position and locals

dbVars == <<customerEmails, conversations, aiResponses, appConfig>>
mailVars == <<sentReplies, drafts>>
pipeVars == <<customerEmails, conversations, aiResponses, appConfig, sentReplies, drafts,
              worker, calls, faults>>
vars == <<genParams, genPc, genOutcome, genResult, genAnalysis, providerCalls,
          customerEmails, conversations, aiResponses, appConfig, sentReplies, drafts,
          worker, calls, faults, valResponse, valParts, valResult, batch>>

Workers == {"w1", "w2"}

\* the locals of processEmail before it has begun
IdleWorker ==
  [pc |-> "idle", call |-> 0, email |-> "", conversation |-> <<>>, savedEmailId |-> 0,
   orderNumber |-> NoString, orderData |-> <<>>, category |-> "",
   similarResponses |-> <<>>, aiResponse |-> <<>>, validation |-> <<>>,
   shouldEscalate |-> FALSE, finalResponse |-> "", isIntelligentFallback |-> FALSE,
   savedResponseId |-> 0, delivery |-> "none", emailSent |-> FALSE,
   lookupFailed |-> FALSE, searchFailed |-> FALSE]

\* nothing of the pipeline in use
PipeIdle ==
  /\ customerEmails = {}
  /\ conversations = {}
  /\ aiResponses = {}
  /\ appConfig = [autoReplyEnabled |-> FALSE]
  /\ sentReplies = <<>>
  /\ drafts = <<>>
  /\ worker = [w \in Workers |-> IdleWorker]
  /\ calls = <<>>
  /\ faults = 0

\* no generateResponse invocation of its own under way
GenIdle ==
  /\ genParams = Params("", "", NoString, <<>>, <<>>, NoString, NoString)
  /\ genPc = "idle"
  /\ genOutcome = <<>>
  /\ genResult = <<>>
  /\ genAnalysis = <<>>
  /\ providerCalls = 0

\* the results processUnreadEmails starts from (lines 59-65)
ProcessedEmailResults(totalProcessed, successful, escalated, failed, errors) ==
  [totalProcessed |-> totalProcessed, successful |-> successful, escalated |-> escalated,
   failed |-> failed, errors |-> errors]

\* no processUnreadEmails invocation under way
BatchIdle ==
  batch = [pc |-> "idle", unreadEmails |-> <<>>, index |-> 1,
           results |-> ProcessedEmailResults(0, 0, 0, 0, <<>>), markAsRead |-> <<>>,
           read |-> {}]

\* no text under validation
ValIdle ==
  /\ valResponse = ""
  /\ valParts = 0
  /\ valResult = <<>>

(***************************************************************************)
(* One invocation of generateResponse.                                     *)
(***************************************************************************)
GenInit ==
  /\ genParams \in GenInputs
  /\ genPc = "start"
  /\ genOutcome = <<>>
  /\ genResult = <<>>
  /\ genAnalysis = <<>>
  /\ providerCalls = 0
  /\ PipeIdle
  /\ ValIdle
  /\ BatchIdle

\* buildPrompt throws: the catch block runs and the provider is never called
GenBuildPromptThrows ==
  /\ genPc = "start"
  /\ buildPromptThrows(genParams)
  /\ genResult' = <<CatchBlock(genParams, TypeError)>>
  /\ genAnalysis' = <<analyzeCustomerQuery(genParams.customerQuery)>>
  /\ genOutcome' = <<TypeError>>
  /\ genPc' = "done"
  /\ UNCHANGED <<genParams, providerCalls>>
  /\ UNCHANGED <<pipeVars, valVars, batch>>

\* the prompt is built and the provider is called
GenCallProvider ==
  /\ genPc = "start"
  /\ ~buildPromptThrows(genParams)
  /\ providerCalls' = providerCalls + 1
  /\ genPc' = "awaiting"
  /\ UNCHANGED <<genParams, genOutcome, genResult, genAnalysis>>
  /\ UNCHANGED <<pipeVars, valVars, batch>>

\* the provider answers
GenProviderCompletes ==
  /\ genPc = "awaiting"
  /\ \E c \in Completions :
       /\ genOutcome' = <<c>>
       /\ genResult' = <<OnCompletion(genParams, c)>>
  /\ genPc' = "done"
  /\ UNCHANGED <<genParams, genAnalysis, providerCalls>>
  /\ UNCHANGED <<pipeVars, valVars, batch>>

\* the provider call throws
GenProviderFails ==
  /\ genPc = "awaiting"
  /\ \E e \in ProviderErrors :
       /\ genOutcome' = <<e>>
       /\ genResult' = <<CatchBlock(genParams, e)>>
  /\ genAnalysis' = <<analyzeCustomerQuery(genParams.customerQuery)>>
  /\ genPc' = "done"
  /\ UNCHANGED <<genParams, providerCalls>>
  /\ UNCHANGED <<pipeVars, valVars, batch>>

GenNext ==
  \/ GenBuildPromptThrows
  \/ GenCallProvider
  \/ GenProviderCompletes
  \/ GenProviderFails

SpecGen == GenInit /\ [][GenNext]_vars

(***************************************************************************)
(* validateResponse on texts put together from fragments.                  *)
(***************************************************************************)
\* s repeated n times
RECURSIVE Repeat(_, _)
Repeat(s, n) ==
  IF n = 0 THEN ""
  ELSE IF n = 1 THEN s
  ELSE Repeat(s, n \div 2) \o Repeat(s, n - n \div 2)

\* lengths of the texts a validation starts from: around the two limits of
\* validateResponse (30 and 1000), and ten short of 200
BaseLengths == {0, 20, 29, 30, 190, 1000}

\* what is appended: a courtesy word, each marker of the placeholder pattern,
\* brackets the pattern does not span, an order mention and an order number
Fragments ==
  {" Thank you", "[TRACKING]", "{{name}}", " todo", "PLACEHOLDER", "XXX",
   " your order", " #12", "]\n["}

ValInit ==
  /\ valResponse \in {Repeat("a", n) : n \in BaseLengths}
  /\ valParts = 0
  /\ valResult = <<>>
  /\ GenIdle
  /\ PipeIdle
  /\ BatchIdle

\* the caller puts one more fragment into the text
ValAppend ==
  /\ valResult = <<>>
  /\ valParts < MaxParts
  /\ \E f \in Fragments : valResponse' = valResponse \o f
  /\ valParts' = valParts + 1
  /\ UNCHANGED <<valResult, genVars, pipeVars, batch>>

\* validateResponse(valResponse)
ValValidate ==
  /\ valResult = <<>>
  /\ valResult' = <<validateResponse(valResponse)>>
  /\ UNCHANGED <<valResponse, valParts, genVars, pipeVars, batch>>

ValNext ==
  \/ ValAppend
  \/ ValValidate

SpecValidate == ValInit /\ [][ValNext]_vars

(***************************************************************************)
(* The mailbox and the collaborators of the pipeline.                      *)
(***************************************************************************)
\* a GmailEmail, with the fields processEmail reads
GmailEmail(id, fromEmail, fromName, subject, body) ==
  [id |-> id, threadId |-> "t-" \o id, fromEmail |-> fromEmail, fromName |-> fromName,
   subject |-> subject, body |-> body]

Inbox ==
  {GmailEmail("m1", "sam@example.com", Some("Sam"), "Tracking",
              "Can you give me tracking for my order?"),
   GmailEmail("m2", "sam@example.com", Some("Sam"), "Broken",
              "My order #1001 arrived broken, this is terrible"),
   GmailEmail("m3", "kim@example.com", NoString, "Hours",
              "What are your store hours?")}

EmailOf(id) == CHOOSE e \in Inbox : e.id = id

\* the last position j >= k with s[k..j] all digits
DigitsEnd(s, k) ==
  CHOOSE j \in k..Len(s) :
    /\ \A m \in k..j : IsDigit(CharAt(s, m))
    /\ (j = Len(s) \/ ~IsDigit(CharAt(s, j + 1)))

\* the first position >= k of s that holds no whitespace (Len(s) + 1 if none)
SkipSpaces(s, k) ==
  CHOOSE j \in k..(Len(s) + 1) :
    /\ \A m \in k..(j - 1) : IsSpace(CharAt(s, m))
    /\ (j = Len(s) + 1 \/ ~IsSpace(CharAt(s, j)))

\* the leftmost of a set of positions
Leftmost(positions) == CHOOSE x \in positions : \A y \in positions : x <= y

\* where the group of /order\s+(?:number\s+)?(\d+)/i starts for a match
\* beginning at i; 0 when there is none
OrderDigitsStart(text, i) ==
  LET low == toLowerCase(text)
      a == SkipSpaces(text, i + 5)
      b == SkipSpaces(text, a + 6)
  IN IF ~OccursAt(low, "order", i) \/ a = i + 5 THEN 0
     ELSE IF OccursAt(low, "number", a) /\ b > a + 6 /\ b <= Len(text) /\ IsDigit(CharAt(text, b))
     THEN b
     ELSE IF a <= Len(text) /\ IsDigit(CharAt(text, a)) THEN a
     ELSE 0

\* ShopifyOrdersService.extractOrderNumber: the patterns tried in turn
\* (/order\s+#(\d+)/i can only match where /#(\d+)/ already has)
extractOrderNumber(text) ==
  LET hashes == {i \in Occurrences(text, "#") : i < Len(text) /\ IsDigit(CharAt(text, i + 1))}
      orders == {i \in 1..Len(text) : OrderDigitsStart(text, i) # 0}
      longRuns == {i \in 1..Len(text) :
                     /\ IsDigit(CharAt(text, i))
                     /\ WordBoundary(text, i)
                     /\ DigitsEnd(text, i) - i + 1 >= 4
                     /\ WordBoundary(text, DigitsEnd(text, i) + 1)}
  IN IF hashes # {}
     THEN Some(SubSeq(text, Leftmost(hashes) + 1, DigitsEnd(text, Leftmost(hashes) + 1)))
     ELSE IF orders # {}
     THEN LET k == OrderDigitsStart(text, Leftmost(orders))
          IN Some(SubSeq(text, k, DigitsEnd(text, k)))
     ELSE IF longRuns # {}
     THEN Some(SubSeq(text, Leftmost(longRuns), DigitsEnd(text, Leftmost(longRuns))))
     ELSE NoString

\* CustomerSupportService.determinePriority
determinePriority(category, content) ==
  LET lowerContent == toLowerCase(content)
      urgentKeywords == {"urgent", "asap", "immediately", "broken", "damaged", "wrong", "missing"}
      highKeywords == {"return", "refund", "complaint", "problem", "issue"}
  IN IF \E k \in urgentKeywords : includes(lowerContent, k) THEN "URGENT"
     ELSE IF category = "PRODUCT_ISSUE" \/ \E k \in highKeywords : includes(lowerContent, k)
     THEN "HIGH"
     ELSE IF category = "RETURN_REFUND" THEN "HIGH"
     ELSE "NORMAL"

\* RAGService.searchSimilarResponses keeps the responses of similarity > 0.5
AboveHalf(r) == r.similarity > 10
FilterSimilar(raw) == SelectSeq(raw, AboveHalf)

\* the decision taken from the raw confidence again
DecideEscalationFromConfidence(aiResponse, validation) ==
  aiResponse.confidence < Hundredths(70)

\* a decision that leaves the validity of the reply out
DecideEscalationIgnoringValidity(aiResponse, validation) ==
  aiResponse.shouldEscalate \/ validation.score < Hundredths(60)

\* the escalation decision of processEmail (lines 204-206)
DecideEscalation(aiResponse, validation) ==
  aiResponse.shouldEscalate \/ ~validation.isValid \/ validation.score < Hundredths(60)

\* only a reply that is not escalated is sent
ShouldSendDirectlyUnlessEscalated(shouldEscalate, isIntelligentFallback) ==
  ~shouldEscalate

\* const shouldSendDirectly = !shouldEscalate || isIntelligentFallback
ShouldSendDirectly(shouldEscalate, isIntelligentFallback) ==
  ~shouldEscalate \/ isIntelligentFallback

\* what processEmail returns; responseId and confidence are <<>> when absent
EmailProcessResult(success, escalated, message, responseId, confidence) ==
  [success |-> success, escalated |-> escalated, message |-> message,
   responseId |-> responseId, confidence |-> confidence]
\* the early return of lines 116-122
AlreadyProcessed == EmailProcessResult(TRUE, FALSE, "Email already processed", <<>>, <<>>)
\* the return of lines 293-301
Processed(shouldEscalate, responseId, confidence) ==
  EmailProcessResult(TRUE, shouldEscalate,
                     IF shouldEscalate THEN "Email escalated for human review"
                     ELSE "Automated response sent successfully",
                     <<responseId>>, <<confidence>>)
\* the catch block of processEmail (lines 303-310)
Failure(error) == EmailProcessResult(FALSE, FALSE, error, <<>>, <<>>)

(***************************************************************************)
(* The tables.                                                             *)
(***************************************************************************)
\* ids (uuids) are numbered in the order the rows are created
NextId == Cardinality(customerEmails) + Cardinality(conversations) + Cardinality(aiResponses) + 1

CustomerEmailRow(id, email, conversationId) ==
  [id |-> id, gmailMessageId |-> email.id, fromEmail |-> email.fromEmail,
   conversationId |-> conversationId, processed |-> FALSE]

ConversationRow(id, email) ==
  [id |-> id, customerEmail |-> email.fromEmail, customerName |-> email.fromName,
   status |-> "ACTIVE", priority |-> "NORMAL", shopifyOrderId |-> NoString]

\* forMessage is not a column: it names the message the response answers
AIResponseRow(id, emailId, conversationId, text, confidence, escalated, orderData, similarResponses, promptUsed) ==
  [id |-> id, forMessage |-> emailId, conversationId |-> conversationId,
   responseText |-> text, confidence |-> confidence, sentViaGmail |-> FALSE,
   sentAt |-> FALSE, humanReviewed |-> escalated, escalated |-> escalated,
   shopifyData |-> Len(orderData) > 0, ragSources |-> Len(similarResponses) > 0,
   promptUsed |-> promptUsed]

\* customerEmail.create without the unique index on gmailMessageId
NoUniqueIndex(gmailMessageId) == FALSE

\* CustomerEmail_gmailMessageId_key: the insert is rejected when a row holds the id
UniqueViolation(gmailMessageId) ==
  \E r \in customerEmails : r.gmailMessageId = gmailMessageId

\* rows is the table with row r replaced by its update
UpdateRow(rows, id, new) == {IF r.id = id THEN new ELSE r : r \in rows}
RowOf(rows, id) == CHOOSE r \in rows : r.id = id
\* what the collaborators may answer
OrderAnswers == {<<>>, <<PendingOrder>>, <<ShippedOrder>>, <<PendingOrder, ShippedOrder>>,
                 <<PickupOrder>>}
Categories == {"ORDER_STATUS", "PRODUCT_ISSUE", "OTHER"}
StoredEvidence == {<<>>, <<SimilarResponse(20)>>, <<SimilarResponse(10)>>,
                   <<SimilarResponse(20), SimilarResponse(11)>>}
Outcomes == Completions \cup {ProviderError(429, ""), ProviderError(0, "")}

\* the params processEmail hands generateResponse (lines 190-198)
RequestParams(emailId, orderData, similarResponses, category) ==
  LET email == EmailOf(emailId)
  IN Params(email.body, email.fromEmail, email.fromName, orderData, similarResponses,
            Some(category), Some("Subject: " \o email.subject))

\* every params the pipeline can hand generateResponse
Requests ==
  {RequestParams(e.id, o, FilterSimilar(r), c) :
     e \in Inbox, o \in OrderAnswers, r \in StoredEvidence, c \in Categories}

\* the pure computations of processEmail, each made once for each input
\* and looked up by the actions
ExtractedOrderNumber == [e \in Inbox |-> extractOrderNumber(e.body)]
Priority == [c \in Categories |-> [e \in Inbox |-> determinePriority(c, e.body)]]
Generated == [params \in Requests |-> [outcome \in Outcomes |->
                generateResponse(params, outcome).value]]
Validated == [params \in Requests |-> [outcome \in Outcomes |->
                validateResponse(Generated[params][outcome].response)]]
EscalationText == [params \in Requests |->
                     generateFallbackResponse(params, "escalation").response]

(***************************************************************************)
(* processEmail, one action for each call it awaits: the action is the     *)
(* call completing and the code that runs up to the next await.            *)
(***************************************************************************)
\* processEmail invocations the workers of SpecConc make between them
MaxCalls == 2
\* database calls that are rejected in one behaviour
MaxFaults == 1

\* the positions of processEmail that await the database
DatabaseCalls ==
  {"findUnique", "findFirst", "createConversation", "createEmail", "updateOrderId",
   "createResponse", "markSent", "updateConversation", "markProcessed"}

\* no local changes
NoChange == [f \in {} |-> FALSE]

\* worker p moves to position pc with the locals of fields changed
Goto(p, pc, fields) ==
  worker' = [worker EXCEPT ![p] =
               [f \in DOMAIN @ |-> IF f = "pc" THEN pc
                                   ELSE IF f \in DOMAIN fields THEN fields[f] ELSE @[f]]]

\* processEmail of worker p returns result
Return(p, result) ==
  /\ Goto(p, "returned", NoChange)
  /\ calls' = [calls EXCEPT ![worker[p].call].result = <<result>>]

\* the calls that have returned
ReturnedCalls == {k \in 1..Len(calls) : calls[k].result # <<>>}

\* a caller hands worker p a message of the inbox
StartCall(p, inbox, limit) ==
  /\ worker[p].pc \in {"idle", "returned"}
  /\ Len(calls) < limit
  /\ \E e \in inbox :
       /\ worker' = [worker EXCEPT ![p] =
                       [IdleWorker EXCEPT !.pc = "findUnique", !.call = Len(calls) + 1,
                                          !.email = e.id]]
       /\ calls' = Append(calls, [worker |-> p, email |-> e.id, after |-> ReturnedCalls,
                                  result |-> <<>>])
  /\ UNCHANGED <<batch, valVars, genVars, dbVars, mailVars, faults>>

\* customerEmail.findUnique (lines 112-122)
FindUnique(p) ==
  /\ worker[p].pc = "findUnique"
  /\ IF \E r \in customerEmails : r.gmailMessageId = worker[p].email
     THEN Return(p, AlreadyProcessed)
     ELSE Goto(p, "findFirst", NoChange) /\ UNCHANGED calls
  /\ UNCHANGED <<batch, valVars, genVars, dbVars, mailVars, faults>>

\* conversation.findFirst (lines 125-130): any row of the customer
FindFirst(p) ==
  LET matching == {c \in conversations : c.customerEmail = EmailOf(worker[p].email).fromEmail}
  IN /\ worker[p].pc = "findFirst"
     /\ IF matching = {}
        THEN Goto(p, "createConversation", NoChange)
        ELSE \E c \in matching : Goto(p, "createEmail", [conversation |-> <<c>>])
     /\ UNCHANGED <<batch, valVars, genVars, dbVars, mailVars, calls, faults>>

\* conversation.create (lines 131-139)
CreateConversation(p) ==
  LET c == ConversationRow(NextId, EmailOf(worker[p].email))
  IN /\ worker[p].pc = "createConversation"
     /\ conversations' = conversations \cup {c}
     /\ Goto(p, "createEmail", [conversation |-> <<c>>])
     /\ UNCHANGED <<batch, valVars, genVars, customerEmails, aiResponses, appConfig, mailVars, calls, faults>>

\* customerEmail.create (lines 143-155), then extractOrderNumber (158-159)
CreateEmail(p) ==
  LET email == EmailOf(worker[p].email)
      conversation == worker[p].conversation[1]
      orderNumber == ExtractedOrderNumber[email]
  IN /\ worker[p].pc = "createEmail"
     /\ IF UniqueViolation(email.id)
        THEN /\ Return(p, Failure("Unique constraint failed on the fields: (gmailMessageId)"))
             /\ UNCHANGED customerEmails
        ELSE /\ customerEmails' =
                  customerEmails \cup {CustomerEmailRow(NextId, email, conversation.id)}
             /\ Goto(p, IF Truthy(orderNumber) /\ ~Truthy(conversation.shopifyOrderId)
                        THEN "updateOrderId" ELSE "lookupOrders",
                     [savedEmailId |-> NextId, orderNumber |-> orderNumber])
             /\ UNCHANGED calls
     /\ UNCHANGED <<batch, valVars, genVars, conversations, aiResponses, appConfig, mailVars, faults>>

\* conversation.update of shopifyOrderId (lines 160-163)
UpdateOrderId(p) ==
  LET id == worker[p].conversation[1].id
  IN /\ worker[p].pc = "updateOrderId"
     /\ conversations' = UpdateRow(conversations, id,
                                   [RowOf(conversations, id) EXCEPT
                                      !.shopifyOrderId = worker[p].orderNumber])
     /\ Goto(p, "lookupOrders", NoChange)
     /\ UNCHANGED <<batch, valVars, genVars, customerEmails, aiResponses, appConfig, mailVars, calls, faults>>

\* how a collaborator answered: with value, or failed (a request that throws)
Answer(failed, value) == [failed |-> failed, value |-> value]
\* what a call hands back: a value, or the error escaping it
Caught(value) == [raised |-> FALSE, value |-> value]
Escaped == [raised |-> TRUE, value |-> <<>>]

\* ShopifyOrdersService.findOrderByNumber: the order found, as a list of at
\* most one; its catch returns null
findOrderByNumber(answer) ==
  IF answer.failed THEN Caught(<<>>) ELSE Caught(answer.value)

\* ShopifyOrdersService.findOrdersByEmail: its catch throws an error of its own
findOrdersByEmail(answer) ==
  IF answer.failed THEN Escaped ELSE Caught(answer.value)

\* the lookup without the try of processEmail around it
FetchOrdersWithoutCatch(orderNumber, answer) ==
  IF Truthy(orderNumber) THEN findOrderByNumber(answer) ELSE findOrdersByEmail(answer)

\* lines 168-180 of processEmail: orderData after the lookup; the catch
\* leaves it []
FetchOrders(orderNumber, answer) ==
  LET found == IF Truthy(orderNumber) THEN findOrderByNumber(answer)
               ELSE findOrdersByEmail(answer)
  IN IF found.raised THEN Caught(<<>>) ELSE found

\* RAGService.searchSimilarResponses: the similar responses above 0.5; every
\* branch of its catch returns []
searchSimilarResponses(answer) ==
  IF answer.failed THEN <<>> ELSE FilterSimilar(answer.value)

\* the order lookup (lines 167-180): Shopify answers with the order of that
\* number or none, or with the customer's orders, or the request fails (if
\* failures holds TRUE)
LookupOrders(p, answers, failures) ==
  LET orderNumber == worker[p].orderNumber
      possible == IF Truthy(orderNumber)
                  THEN {l \in answers : Len(l) = 0 \/ (Len(l) = 1 /\ l[1].orderNumber = orderNumber[1])}
                  ELSE answers
  IN /\ worker[p].pc = "lookupOrders"
     /\ \E failed \in failures : \E orders \in (IF failed THEN {<<>>} ELSE possible \cup {<<>>}) :
          LET orderData == FetchOrders(orderNumber, Answer(failed, orders))
          IN IF orderData.raised
             THEN Return(p, Failure("Failed to fetch orders from Shopify"))
             ELSE /\ Goto(p, "classifyQuery",
                          [orderData |-> orderData.value, lookupFailed |-> failed])
                  /\ UNCHANGED calls
     /\ UNCHANGED <<batch, valVars, genVars, dbVars, mailVars, faults>>

\* ragService.classifyQuery and extractQueryInfo (lines 183-184); the query
\* information is not used
ClassifyQuery(p, categories) ==
  /\ worker[p].pc = "classifyQuery"
  /\ \E category \in categories : Goto(p, "searchSimilar", [category |-> category])
  /\ UNCHANGED <<batch, valVars, genVars, dbVars, mailVars, calls, faults>>

\* ragService.searchSimilarResponses (line 187): the store answers with
\* responses, or the search fails (if failures holds TRUE)
SearchSimilar(p, stored, failures) ==
  /\ worker[p].pc = "searchSimilar"
  /\ \E failed \in failures : \E raw \in (IF failed THEN {<<>>} ELSE stored) :
       Goto(p, "generateResponse",
            [similarResponses |-> searchSimilarResponses(Answer(failed, raw)),
             searchFailed |-> failed])
  /\ UNCHANGED <<batch, valVars, genVars, dbVars, mailVars, calls, faults>>


\* aiService.generateResponse (lines 190-198), then the validation, the
\* decision and the choice of the text to store (lines 201-226)
GenerateResponse(p, outcomes) ==
  LET w == worker[p]
      params == RequestParams(w.email, w.orderData, w.similarResponses, w.category)
  IN /\ w.pc = "generateResponse"
     /\ \E outcome \in outcomes :
        \E aiResponse \in {Generated[params][outcome]} :
        \E validation \in {Validated[params][outcome]} :
        \E shouldEscalate \in {DecideEscalation(aiResponse, validation)} :
          Goto(p, "createResponse",
               [aiResponse |-> <<aiResponse>>,
                validation |-> <<validation>>,
                shouldEscalate |-> shouldEscalate,
                finalResponse |-> IF shouldEscalate THEN EscalationText[params]
                                  ELSE aiResponse.response,
                isIntelligentFallback |-> shouldEscalate])
     /\ UNCHANGED <<batch, valVars, genVars, dbVars, mailVars, calls, faults>>

\* aIResponse.create (lines 228-240)
CreateResponse(p) ==
  LET w == worker[p]
  IN /\ w.pc = "createResponse"
     /\ aiResponses' = aiResponses \cup
          {AIResponseRow(NextId, w.email, w.conversation[1].id, w.finalResponse,
                         w.aiResponse[1].confidence, w.shouldEscalate, w.orderData,
                         w.similarResponses, w.aiResponse[1].promptUsed)}
     /\ Goto(p, "deliver", [savedResponseId |-> NextId])
     /\ UNCHANGED <<batch, valVars, genVars, customerEmails, conversations, appConfig, mailVars, calls, faults>>

\* a message handed to Gmail
Outgoing(email, body) ==
  [to |-> email.fromEmail, subject |-> "Re: " \o email.subject, body |-> body,
   threadId |-> email.threadId]

\* gmailService.sendReply or createDraft (lines 243-275); either may fail,
\* sendReply answering false and createDraft null
Deliver(p) ==
  LET w == worker[p]
      message == Outgoing(EmailOf(w.email), RowOf(aiResponses, w.savedResponseId).responseText)
  IN /\ w.pc = "deliver"
     /\ IF ShouldSendDirectly(w.shouldEscalate, w.isIntelligentFallback)
        THEN \E emailSent \in BOOLEAN :
               /\ sentReplies' = IF emailSent THEN Append(sentReplies, message) ELSE sentReplies
               /\ Goto(p, IF emailSent THEN "markSent" ELSE "updateConversation",
                       [delivery |-> "sendReply", emailSent |-> emailSent])
               /\ UNCHANGED drafts
        ELSE \E created \in BOOLEAN :
               /\ drafts' = IF created THEN Append(drafts, message) ELSE drafts
               /\ Goto(p, "updateConversation", [delivery |-> "createDraft"])
               /\ UNCHANGED sentReplies
     /\ UNCHANGED <<batch, valVars, genVars, dbVars, calls, faults>>

\* aIResponse.update of sentViaGmail and sentAt (lines 255-262)
MarkSent(p) ==
  LET id == worker[p].savedResponseId
  IN /\ worker[p].pc = "markSent"
     /\ aiResponses' = UpdateRow(aiResponses, id,
                                 [RowOf(aiResponses, id) EXCEPT
                                    !.sentViaGmail = TRUE, !.sentAt = TRUE])
     /\ Goto(p, "updateConversation", NoChange)
     /\ UNCHANGED <<batch, valVars, genVars, customerEmails, conversations, appConfig, mailVars, calls, faults>>

\* conversation.update of status and priority (lines 278-285)
UpdateConversation(p) ==
  LET w == worker[p]
      id == w.conversation[1].id
  IN /\ w.pc = "updateConversation"
     /\ conversations' = UpdateRow(conversations, id,
          [RowOf(conversations, id) EXCEPT
             !.status = IF w.shouldEscalate THEN "ESCALATED" ELSE "ACTIVE",
             !.priority = Priority[w.category][EmailOf(w.email)]])
     /\ Goto(p, "markProcessed", NoChange)
     /\ UNCHANGED <<batch, valVars, genVars, customerEmails, aiResponses, appConfig, mailVars, calls, faults>>

\* customerEmail.update of processed (lines 288-291) and the return (293-301)
MarkProcessed(p) ==
  LET w == worker[p]
  IN /\ w.pc = "markProcessed"
     /\ customerEmails' = UpdateRow(customerEmails, w.savedEmailId,
                                    [RowOf(customerEmails, w.savedEmailId) EXCEPT
                                       !.processed = TRUE])
     /\ Return(p, Processed(w.shouldEscalate, w.savedResponseId, w.aiResponse[1].confidence))
     /\ UNCHANGED <<batch, valVars, genVars, conversations, aiResponses, appConfig, mailVars, faults>>

\* the database rejects the call processEmail awaits: the catch block
\* (lines 303-310) returns the failure
DatabaseFault(p) ==
  /\ worker[p].pc \in DatabaseCalls
  /\ faults < MaxFaults
  /\ faults' = faults + 1
  /\ Return(p, Failure("Can't reach database server"))
  /\ UNCHANGED <<batch, valVars, genVars, dbVars, mailVars>>

(***************************************************************************)
(* Specifications of the pipeline.                                         *)
(***************************************************************************)
\* the state processEmail leaves when it answers the first message of the
\* inbox with the fallback text, no order and no evidence found
FirstParams == RequestParams("m1", <<>>, <<>>, "OTHER")

FirstMessageProcessed ==
  \E aiResponse \in {Generated[FirstParams][ProviderError(429, "")]} :
  \E validation \in {Validated[FirstParams][ProviderError(429, "")]} :
  \E shouldEscalate \in {DecideEscalation(aiResponse, validation)} :
  \E finalResponse \in {IF shouldEscalate THEN EscalationText[FirstParams]
                        ELSE aiResponse.response} :
    /\ conversations =
         {[ConversationRow(1, EmailOf("m1")) EXCEPT
             !.status = IF shouldEscalate THEN "ESCALATED" ELSE "ACTIVE",
             !.priority = Priority["OTHER"][EmailOf("m1")]]}
    /\ customerEmails = {[CustomerEmailRow(2, EmailOf("m1"), 1) EXCEPT !.processed = TRUE]}
    /\ aiResponses =
         {[AIResponseRow(3, "m1", 1, finalResponse, aiResponse.confidence, shouldEscalate,
                         <<>>, <<>>, aiResponse.promptUsed)
             EXCEPT !.sentViaGmail = TRUE, !.sentAt = TRUE]}
    /\ sentReplies = <<Outgoing(EmailOf("m1"), finalResponse)>>
    /\ drafts = <<>>

NothingProcessed ==
  /\ conversations = {}
  /\ customerEmails = {}
  /\ aiResponses = {}
  /\ sentReplies = <<>>
  /\ drafts = <<>>

\* one processEmail invocation, on a fresh database or after the first message
Init ==
  /\ GenIdle
  /\ ValIdle
  /\ BatchIdle
  /\ NothingProcessed \/ FirstMessageProcessed
  /\ appConfig \in [autoReplyEnabled : BOOLEAN]
  /\ worker = [w \in Workers |-> IdleWorker]
  /\ calls = <<>>
  /\ faults = 0

Next ==
  \/ StartCall("w1", Inbox, 1)
  \/ FindUnique("w1")
  \/ FindFirst("w1")
  \/ CreateConversation("w1")
  \/ CreateEmail("w1")
  \/ UpdateOrderId("w1")
  \/ LookupOrders("w1", OrderAnswers, BOOLEAN)
  \/ ClassifyQuery("w1", Categories)
  \/ SearchSimilar("w1", StoredEvidence, BOOLEAN)
  \/ GenerateResponse("w1", Outcomes)
  \/ CreateResponse("w1")
  \/ Deliver("w1")
  \/ MarkSent("w1")
  \/ UpdateConversation("w1")
  \/ MarkProcessed("w1")
  \/ DatabaseFault("w1")

Spec == Init /\ [][Next]_vars

\* the messages, and the answers of the collaborators, of the concurrent runs
ConcInbox == {e \in Inbox : e.fromEmail = "sam@example.com"}
ConcOrderAnswers == {<<>>}
ConcCategories == {"ORDER_STATUS"}
ConcStoredEvidence == {<<SimilarResponse(20), SimilarResponse(10)>>}
ConcOutcomes == {ProviderError(429, "")}

InitConc ==
  /\ GenIdle
  /\ ValIdle
  /\ BatchIdle
  /\ PipeIdle

\* two workers of the caller, MaxCalls invocations between them
NextConc ==
  \E p \in Workers :
    \/ StartCall(p, ConcInbox, MaxCalls)
    \/ FindUnique(p)
    \/ FindFirst(p)
    \/ CreateConversation(p)
    \/ CreateEmail(p)
    \/ UpdateOrderId(p)
    \/ LookupOrders(p, ConcOrderAnswers, {FALSE})
    \/ ClassifyQuery(p, ConcCategories)
    \/ SearchSimilar(p, ConcStoredEvidence, {FALSE})
    \/ GenerateResponse(p, ConcOutcomes)
    \/ CreateResponse(p)
    \/ Deliver(p)
    \/ MarkSent(p)
    \/ UpdateConversation(p)
    \/ MarkProcessed(p)
    \/ DatabaseFault(p)

SpecConc == InitConc /\ [][NextConc]_vars

(***************************************************************************)
(* One invocation of processUnreadEmails.                                  *)
(***************************************************************************)
\* the lists getUnreadEmails may answer with: emails of the inbox, each once
RECURSIVE UnreadOfLength(_)
UnreadOfLength(n) ==
  IF n = 0 THEN {<<>>}
  ELSE {Append(u, e.id) : u \in UnreadOfLength(n - 1), e \in Inbox}

UnreadLists ==
  {u \in UNION {UnreadOfLength(n) : n \in 0..MaxBatch} :
     \A i, j \in 1..Len(u) : u[i] = u[j] => i = j}

\* the results with a failed email left out of the count
CountResultOfSuccessOnly(results, id, result) ==
  IF result.success
  THEN [results EXCEPT !.successful = @ + 1,
                       !.escalated = IF result.escalated THEN @ + 1 ELSE @]
  ELSE results

\* the results after the result of processEmail for email id is counted
\* (lines 75-87)
CountResult(results, id, result) ==
  IF result.success
  THEN [results EXCEPT !.successful = @ + 1,
                       !.escalated = IF result.escalated THEN @ + 1 ELSE @]
  ELSE [results EXCEPT !.failed = @ + 1,
                       !.errors = Append(@, [emailId |-> id, error |-> result.message])]

\* getUnreadEmails answers (lines 68-69)
BatchFetch ==
  /\ batch.pc = "idle"
  /\ \E unreadEmails \in UnreadLists :
       batch' = [batch EXCEPT !.pc = "loop", !.unreadEmails = unreadEmails,
                              !.results.totalProcessed = Len(unreadEmails)]
  /\ UNCHANGED <<genVars, pipeVars, valVars>>

\* getUnreadEmails throws: processUnreadEmails throws in turn (lines 99-102)
BatchFetchFails ==
  /\ batch.pc = "idle"
  /\ batch' = [batch EXCEPT !.pc = "raised"]
  /\ UNCHANGED <<genVars, pipeVars, valVars>>

\* the loop calls processEmail for the next email (line 73)
BatchProcessEmail ==
  /\ batch.pc = "loop"
  /\ batch.index <= Len(batch.unreadEmails)
  /\ Len(calls) = batch.index - 1
  /\ StartCall("w1", {EmailOf(batch.unreadEmails[batch.index])}, MaxBatch)

\* processEmail has returned: the result is counted and the email marked as
\* read (lines 75-90); markAsRead answers true or false
BatchAccount ==
  /\ batch.pc = "loop"
  /\ batch.index <= Len(batch.unreadEmails)
  /\ Len(calls) = batch.index
  /\ worker["w1"].pc = "returned"
  /\ \E marked \in BOOLEAN :
       LET result == calls[batch.index].result[1]
           id == batch.unreadEmails[batch.index]
       IN batch' = [batch EXCEPT
            !.results = CountResult(@, id, result),
            !.markAsRead = Append(@, id),
            !.read = IF marked THEN @ \cup {id} ELSE @,
            !.index = @ + 1]
  /\ UNCHANGED <<genVars, pipeVars, valVars>>

\* the loop is over: return results (line 100)
BatchReturn ==
  /\ batch.pc = "loop"
  /\ batch.index > Len(batch.unreadEmails)
  /\ batch' = [batch EXCEPT !.pc = "returned"]
  /\ UNCHANGED <<genVars, pipeVars, valVars>>

NextBatch ==
  \/ BatchFetch
  \/ BatchFetchFails
  \/ BatchProcessEmail
  \/ BatchAccount
  \/ BatchReturn
  \/ FindUnique("w1")
  \/ FindFirst("w1")
  \/ CreateConversation("w1")
  \/ CreateEmail("w1")
  \/ UpdateOrderId("w1")
  \/ LookupOrders("w1", ConcOrderAnswers, {FALSE})
  \/ ClassifyQuery("w1", ConcCategories)
  \/ SearchSimilar("w1", ConcStoredEvidence, {FALSE})
  \/ GenerateResponse("w1", ConcOutcomes)
  \/ CreateResponse("w1")
  \/ Deliver("w1")
  \/ MarkSent("w1")
  \/ UpdateConversation("w1")
  \/ MarkProcessed("w1")
  \/ DatabaseFault("w1")

SpecBatch == Init /\ [][NextBatch]_vars

(***************************************************************************)
(* Properties of one generateResponse invocation (SpecGen).                *)
(***************************************************************************)
GenDone == genPc = "done" /\ genResult # <<>>
GenFailed == GenDone /\ ~genOutcome[1].ok
GenReply == genResult[1].value

\* C1: the confidence calculateConfidence returns for a provider reply lies
\* in [0, 1], for every reply text, order data and evidence list.
C1_ConfidenceWithinUnitInterval ==
  (GenDone /\ genOutcome[1].ok) =>
    /\ GenReply.confidence >= 0
    /\ GenReply.confidence <= Unit
    /\ GenReply.confidence =
         calculateConfidence(GenReply.response, genParams.orderData, genParams.similarResponses)

\* C1 witness: order data, evidence of similarity 1 throughout and a reply
\* naming tracking details: 0.5 + 0.3 + 0.2 + 0.1, returned as 1.
C1_Witness ==
  /\ GenDone /\ genOutcome[1].ok
  /\ Len(genParams.orderData) > 0
  /\ Len(genParams.similarResponses) > 0
  /\ \A k \in 1..Len(genParams.similarResponses) : genParams.similarResponses[k].similarity = 20
  /\ MentionsDetails(GenReply.response)
  /\ Len(GenReply.response) >= 50
  /\ GenReply.confidence = Unit

\* C2: generateResponse always hands its caller a reply and never an
\* exception; after a failure (of the provider call or before it) the reply
\* is the fallback's, with tokensUsed = 0.
C2_GenerateResponseTotal ==
  genPc = "done" =>
    /\ genResult # <<>>
    /\ ~genResult[1].raised
    /\ (~genOutcome[1].ok =>
          /\ GenReply.modelUsed = "intelligent_fallback"
          /\ GenReply.tokensUsed = 0
          /\ Len(GenReply.response) > 0)

\* C2 witness: a provider error of no recognised class, answered by fallback.
C2_Witness ==
  /\ GenFailed
  /\ ErrorType(genOutcome[1]) = "unknown_error"
  /\ providerCalls = 1
  /\ ~genResult[1].raised
  /\ GenReply.modelUsed = "intelligent_fallback"

\* C3: a fallback reply for a query classified return_refund or
\* complaint_issue has shouldEscalate = TRUE, whatever the failure class.
C3_ReturnAndComplaintEscalate ==
  (GenFailed /\ genAnalysis[1].intent \in {"return_refund", "complaint_issue"}) =>
    GenReply.shouldEscalate

\* C3 witness: a return_refund fallback (confidence 0.70, not below the
\* threshold) for a query with no urgency term, escalated.
C3_Witness ==
  /\ GenFailed
  /\ genAnalysis[1].intent = "return_refund"
  /\ genAnalysis[1].urgency = "medium"
  /\ GenReply.confidence = Hundredths(70)
  /\ GenReply.shouldEscalate

\* the intent of the last term group that matches, each group tested alone
LastMatchingGroupIntent(query) ==
  LET low == toLowerCase(query)
  IN IF MatchesWord(low, ComplaintTerms) THEN "complaint_issue"
     ELSE IF MatchesWord(low, ProductTerms) THEN "product_inquiry"
     ELSE IF MatchesWord(low, ReturnTerms) THEN "return_refund"
     ELSE IF MatchesWord(low, StatusTerms)
     THEN (IF MatchesWord(low, TrackingTerms) THEN "shipping_tracking" ELSE "order_status")
     ELSE "general_inquiry"

\* C9: the classifier returns the intent of the last matching group in the
\* order status, return, product, complaint (general_inquiry when none
\* matches); a query with a status term and a complaint term is a
\* complaint_issue with requiresEscalation and urgency high.
C9_IntentPrecedence ==
  genAnalysis # <<>> =>
    LET low == toLowerCase(genParams.customerQuery)
    IN /\ genAnalysis[1].intent = LastMatchingGroupIntent(genParams.customerQuery)
       /\ GenReply.promptUsed = "Smart fallback analysis - Intent: "
                                 \o LastMatchingGroupIntent(genParams.customerQuery)
       /\ (MatchesWord(low, StatusTerms) /\ MatchesWord(low, ComplaintTerms) =>
             /\ genAnalysis[1].intent = "complaint_issue"
             /\ genAnalysis[1].requiresEscalation
             /\ genAnalysis[1].urgency = "high")

\* C9 witness: a query matching the status, return, product and complaint
\* groups, classified complaint_issue.
C9_Witness ==
  /\ genAnalysis # <<>>
  /\ genParams.customerQuery = "I was shipped the wrong frame and I am disappointed, please help"
  /\ genAnalysis[1].intent = "complaint_issue"
  /\ genAnalysis[1].keywords = <<"status", "shipping", "return", "refund", "product", "complaint">>

\* where 'order', blanks and an optional 'number' with blanks end at i, plus
\* one; 0 when they do not match at i
OrderWordsEnd(s, i) ==
  LET low == toLowerCase(s)
      SkipBlanks(k) == CHOOSE j \in k..(Len(s) + 1) :
                         /\ \A m \in k..(j - 1) : IsSpace(CharAt(s, m))
                         /\ (j = Len(s) + 1 \/ ~IsSpace(CharAt(s, j)))
  IN IF ~OccursAt(low, "order", i) \/ SkipBlanks(i + 5) = i + 5 THEN 0
     ELSE LET a == SkipBlanks(i + 5)
          IN IF OccursAt(low, "number", a) /\ SkipBlanks(a + 6) > a + 6
                /\ SkipBlanks(a + 6) <= Len(s) /\ IsOrderTokenChar(CharAt(s, SkipBlanks(a + 6)))
             THEN SkipBlanks(a + 6)
             ELSE a

\* the order number as specified: the token of the first '#<token>' or
\* 'order [number] <token>', NoString when the text has neither
SpecifiedOrderNumber(query) ==
  LET TokenStart(i) ==
        IF CharAt(query, i) = "#" THEN i + 1 ELSE OrderWordsEnd(query, i)
      starts == {i \in 1..Len(query) :
                   /\ TokenStart(i) # 0
                   /\ TokenStart(i) <= Len(query)
                   /\ IsOrderTokenChar(CharAt(query, TokenStart(i)))}
  IN IF starts = {} THEN NoString
     ELSE LET i == CHOOSE x \in starts : \A y \in starts : x <= y
          IN Some(SubSeq(query, TokenStart(i), TokenEnd(query, TokenStart(i))))

\* C10: the classifier's orderNumber is the token of the first '#<token>' or
\* 'order [number] <token>' of the query, and is absent when the query has
\* neither ('order number 1001' gives '1001').
C10_OrderNumberAsSpecified ==
  genAnalysis # <<>> =>
    genAnalysis[1].orderNumber = SpecifiedOrderNumber(genParams.customerQuery)

(***************************************************************************)
(* Properties of processEmail (Spec, SpecConc).                            *)
(***************************************************************************)
MessageIds == {e.id : e \in Inbox}

\* the AIResponse rows, the replies sent and the drafts held for message m
ResponsesFor(m) == {r \in aiResponses : r.forMessage = m}
RepliesFor(m) == {i \in 1..Len(sentReplies) : sentReplies[i].threadId = EmailOf(m).threadId}
DraftsFor(m) == {i \in 1..Len(drafts) : drafts[i].threadId = EmailOf(m).threadId}

\* call k has returned; the result it returned
HasReturned(k) == calls[k].result # <<>>
ResultOf(k) == calls[k].result[1]

\* call k went through the whole pipeline and returned its decision
ProcessedCall(k) == HasReturned(k) /\ ResultOf(k).success /\ ResultOf(k).responseId # <<>>

\* C4: when a message id is processed a second time after a first attempt
\* has returned, whatever that attempt did, exactly one AIResponse is stored
\* for the message and the second call returns 'Email already processed'.
C4_SecondAttemptIsNoOp ==
  \A i, j \in 1..Len(calls) :
    (i \in calls[j].after /\ calls[i].email = calls[j].email /\ HasReturned(j)) =>
      /\ Cardinality(ResponsesFor(calls[j].email)) = 1
      /\ ResultOf(j) = AlreadyProcessed

\* C5: however the invocations interleave, no message id has more than one
\* AIResponse stored nor more than one reply sent.
C5_AtMostOneResponseAndReply ==
  \A m \in MessageIds :
    /\ Cardinality(ResponsesFor(m)) <= 1
    /\ Cardinality(RepliesFor(m)) <= 1

\* two invocations for one message overlapped, both passed findUnique, and the
\* insert of one was rejected by the unique index while the other answered
C5_Witness ==
  \E i, j \in 1..Len(calls) :
    /\ i # j
    /\ calls[i].email = calls[j].email
    /\ i \notin calls[j].after /\ j \notin calls[i].after
    /\ HasReturned(i) /\ HasReturned(j)
    /\ ResultOf(i) = Failure("Unique constraint failed on the fields: (gmailMessageId)")
    /\ ProcessedCall(j)
    /\ Cardinality(ResponsesFor(calls[j].email)) = 1
    /\ Cardinality(RepliesFor(calls[j].email)) = 1

\* C6: an invocation decides escalated = false, and returns it with its
\* decision, only if the generated reply is valid and its confidence is at
\* least 0.7, whether the provider or the fallback produced the reply.
C6_NotEscalatedOnlyIfValidAndConfident ==
  \A p \in Workers :
    LET w == worker[p]
    IN (w.aiResponse # <<>> /\ ~w.shouldEscalate) =>
         /\ w.validation[1].isValid
         /\ w.aiResponse[1].confidence >= Hundredths(70)
         /\ (w.pc = "returned" /\ ResultOf(w.call).success) => ~ResultOf(w.call).escalated

\* an invocation returned escalated = false for a reply of the fallback
C6_Witness ==
  \E p \in Workers :
    LET w == worker[p]
    IN /\ w.pc = "returned"
       /\ ProcessedCall(w.call)
       /\ ~ResultOf(w.call).escalated
       /\ w.aiResponse[1].modelUsed = "intelligent_fallback"
       /\ w.validation[1].isValid
       /\ w.aiResponse[1].confidence >= Hundredths(70)

\* C7: for every email whose decision is escalated, processEmail calls
\* createDraft and not sendReply, and no reply is sent for the message.
C7_EscalatedIsDraftedNotSent ==
  \A p \in Workers :
    LET w == worker[p]
    IN (w.delivery # "none" /\ w.shouldEscalate) =>
         /\ w.delivery = "createDraft"
         /\ RepliesFor(w.email) = {}

\* C8: the delivery of an escalated reply follows the configuration: with
\* autoReplyEnabled off, processEmail creates a draft instead of sending.
C8_EscalatedDeliveryFollowsConfiguration ==
  \A p \in Workers :
    LET w == worker[p]
    IN (w.delivery # "none" /\ w.shouldEscalate /\ ~appConfig.autoReplyEnabled) =>
         w.delivery = "createDraft"

(***************************************************************************)
(* Properties of validateResponse, checked under SpecValidate.             *)
(***************************************************************************)
ValDone == valResult # <<>>
ValResult == valResult[1]

\* a placeholder marker of the specification in text: a bracketed or
\* double-braced stretch within one line, or one of the three words in
\* either case
PlaceholderMarkerIn(text) ==
  LET low == toLowerCase(text)
      Stretch(open, close) ==
        \E i \in 1..Len(text) :
          /\ OccursAt(text, open, i)
          /\ \E j \in (i + Len(open))..Len(text) :
               /\ OccursAt(text, close, j)
               /\ \A k \in (i + Len(open))..(j - 1) : CharAt(text, k) # "\n"
  IN \/ Stretch("[", "]")
     \/ Stretch("{{", "}}")
     \/ \E w \in {"placeholder", "todo", "xxx"} : \E i \in 1..Len(low) : OccursAt(low, w, i)

\* the number of warnings the specification gives text
WarningsFor(text) ==
  LET low == toLowerCase(text)
      courteous ==
        \E w \in {"thank you", "appreciate", "help", "assist", "sorry", "apologize"} :
          \E i \in 1..Len(low) : OccursAt(low, w, i)
      mentionsOrder == \E i \in 1..Len(text) : OccursAt(text, "your order", i)
      numbered ==
        \/ \E i \in 1..Len(low) : OccursAt(low, "#", i) /\ IsDigit(CharAt(low, i + 1))
        \/ \E i \in 1..Len(low) :
             /\ OccursAt(low, "order", i)
             /\ \E j \in (i + 5)..Len(low) :
                  /\ IsDigit(CharAt(low, j))
                  /\ \A k \in (i + 5)..(j - 1) : CharAt(low, k) # "\n"
  IN (IF Len(text) > 1000 THEN 1 ELSE 0)
     + (IF ~courteous THEN 1 ELSE 0)
     + (IF mentionsOrder /\ ~numbered THEN 1 ELSE 0)

\* C11: validateResponse reports a text valid exactly when it raised no
\* issue; it raises an issue for a text shorter than 30 characters and one for
\* a text with a placeholder marker, and no other; the warnings (longer than
\* 1000, no courtesy word, 'your order' without an order number) leave isValid
\* alone; score = max(0, 1 - 0.3 * issues - 0.1 * warnings).  So a text of 20
\* characters is invalid, and so is one of 200 containing '[TRACKING]'.
C11_ValidityFromIssuesOnly ==
  ValDone =>
    LET short == Len(valResponse) < 30
        marked == PlaceholderMarkerIn(valResponse)
        issues == (IF short THEN 1 ELSE 0) + (IF marked THEN 1 ELSE 0)
        raw == Unit - issues * Hundredths(30) - WarningsFor(valResponse) * Hundredths(10)
    IN /\ ValResult.isValid = (Len(ValResult.issues) = 0)
       /\ ValResult.isValid = (~short /\ ~marked)
       /\ Len(ValResult.issues) = issues
       /\ Len(ValResult.warnings) = WarningsFor(valResponse)
       /\ ValResult.score = (IF raw < 0 THEN 0 ELSE raw)
       /\ (Len(valResponse) = 20 => ~ValResult.isValid)
       /\ (Len(valResponse) = 200 /\ includes(valResponse, "[TRACKING]") => ~ValResult.isValid)

\* C11 witness: a text of 200 characters with '[TRACKING]', found invalid,
\* its score 1 - 0.3 - 0.1 (one issue, and no courtesy word).
C11_Witness ==
  /\ ValDone
  /\ Len(valResponse) = 200
  /\ includes(valResponse, "[TRACKING]")
  /\ ~ValResult.isValid
  /\ ValResult.score = Hundredths(60)

\* a text with all three warnings and no issue is valid, at score 0.7
C11_WarningsOnly ==
  /\ ValDone
  /\ Len(ValResult.warnings) = 3
  /\ ValResult.isValid
  /\ ValResult.score = Hundredths(70)

(***************************************************************************)
(* Properties of the fallback, checked under SpecGen.                      *)
(***************************************************************************)
\* the base confidence the specification gives each intent, in hundredths
SpecifiedBaseConfidence ==
  [order_status |-> 75, shipping_tracking |-> 75, return_refund |-> 70,
   product_inquiry |-> 65, complaint_issue |-> 80, general_inquiry |-> 60]

C13_ExactlyOneProviderCall ==
  genPc = "done" => providerCalls = 1

\* no invocation calls the provider twice: the catch block and the fallback
\* make no call
AtMostOneProviderCall == providerCalls <= 1

\* C14: the reply returned after a failed provider call has
\* shouldEscalate = TRUE, for every failure class and every query.
C14_FallbackAlwaysEscalates ==
  (GenFailed /\ providerCalls = 1) => GenReply.shouldEscalate

(***************************************************************************)
(* Properties of the escalation decision, checked under Spec.              *)
(***************************************************************************)
\* C15: an email processed with no order information found (orderData
\* empty after the lookup) is escalated, whatever the query, the evidence and
\* the reply generated.
C15_NoOrderInformationEscalates ==
  \A p \in Workers :
    LET w == worker[p]
    IN (w.pc = "returned" /\ ProcessedCall(w.call) /\ w.orderData = <<>>) =>
         /\ w.shouldEscalate
         /\ ResultOf(w.call).escalated

(***************************************************************************)
(* Properties of the composer, checked under SpecGen.                      *)
(***************************************************************************)
\* the first tracking number of the first fulfillment of the first order
FirstTrackingNumber(orderData) ==
  IF /\ Len(orderData) > 0
     /\ Len(orderData[1].fulfillments) > 0
     /\ Len(orderData[1].fulfillments[1].trackingNumbers) > 0
     /\ orderData[1].fulfillments[1].trackingNumbers[1] # ""
  THEN Some(orderData[1].fulfillments[1].trackingNumbers[1])
  ELSE NoString

\* C16: after a failed provider call for a query classified shipping_tracking
\* the reply is the fallback's, with confidence at least 0.75; its text gives
\* the first order's first tracking number with the carrier's name when the
\* fulfillment carries them, promises tracking within 1-2 business days when
\* the first order has no fulfillment, and asks for the order number when
\* there is no order.
C16_ShippingTrackingFallback ==
  (GenFailed /\ providerCalls = 1 /\ genAnalysis[1].intent = "shipping_tracking") =>
    LET orderData == genParams.orderData
        tracking == FirstTrackingNumber(orderData)
        company == orderData[1].fulfillments[1].trackingCompany
    IN /\ GenReply.modelUsed = "intelligent_fallback"
       /\ GenReply.confidence * 100 >= 75 * Unit
       /\ (tracking # NoString) => includes(GenReply.response, tracking[1])
       /\ (tracking # NoString /\ Truthy(company)) =>
            includes(GenReply.response, tracking[1] \o " with " \o company[1])
       /\ (Len(orderData) > 0 /\ Len(orderData[1].fulfillments) = 0) =>
            /\ includes(GenReply.response, "tracking information")
            /\ includes(GenReply.response, "within 1-2 business days")
       /\ (Len(orderData) = 0) =>
            includes(GenReply.response, "Could you please provide your order number")

\* C16 witness: a rate-limited call for a tracking query of a customer whose
\* order shipped with FedEx under tracking number 123.
C16_Witness ==
  /\ GenFailed
  /\ providerCalls = 1
  /\ genOutcome[1].status = 429
  /\ genAnalysis[1].intent = "shipping_tracking"
  /\ genParams.orderData = <<ShippedOrder>>
  /\ includes(GenReply.response, "123")
  /\ includes(GenReply.response, "FedEx")
  /\ GenReply.confidence = Hundredths(75)

\* the three other texts of the shipping reply are composed as well
C16_EveryBranchComposed ==
  /\ GenFailed
  /\ providerCalls = 1
  /\ genAnalysis[1].intent = "shipping_tracking"
  /\ genParams.orderData = <<PendingOrder, ShippedOrder>>
  /\ includes(GenReply.response, "within 1-2 business days")

\* C17: the decision processEmail takes is (reply.shouldEscalate or not
\* validation.isValid or validation.score < 0.6) of the reply generated and
\* of its validation; it is what the invocation returns as escalated.  The
\* confidence has no part in it beyond the reply's flag.
C17_DecisionFromFlagAndValidation ==
  \A p \in Workers :
    LET w == worker[p]
    IN (w.aiResponse # <<>>) =>
         /\ w.validation # <<>>
         /\ w.shouldEscalate =
              (\/ w.aiResponse[1].shouldEscalate
               \/ ~w.validation[1].isValid
               \/ w.validation[1].score * 100 < 60 * Unit)
         /\ (w.pc = "returned" /\ ProcessedCall(w.call)) =>
              ResultOf(w.call).escalated = w.shouldEscalate

\* C17 witness: a provider reply of confidence 0.7 or more, its flag unset,
\* escalated because it is invalid.
C17_Witness ==
  \E p \in Workers :
    LET w == worker[p]
    IN /\ w.pc = "returned"
       /\ ProcessedCall(w.call)
       /\ ~w.aiResponse[1].shouldEscalate
       /\ w.aiResponse[1].confidence >= Hundredths(70)
       /\ ~w.validation[1].isValid
       /\ ResultOf(w.call).escalated

\* a reply of confidence 0.8 whose flag is set (a complaint) is escalated
C17_FlagAlone ==
  \E p \in Workers :
    LET w == worker[p]
    IN /\ w.aiResponse # <<>>
       /\ w.aiResponse[1].shouldEscalate
       /\ w.aiResponse[1].confidence = Hundredths(80)
       /\ w.validation[1].isValid
       /\ w.shouldEscalate

(***************************************************************************)
(* Properties of the scorer on provider replies, checked under SpecGen.    *)
(***************************************************************************)
\* the score the specification gives text, before it is clamped, in
\* hundredths of hundredths: 100 * (twentieths of similarity) keeps it whole
SpecifiedScore(text, orderData, evidence) ==
  LET low == toLowerCase(text)
      At(s, w) == \E i \in 1..Len(s) : OccursAt(s, w, i)
      marker == At(text, "[") \/ At(text, "{{") \/ At(text, "PLACEHOLDER")
      numbered ==
        \E i \in 1..Len(low) :
          /\ OccursAt(low, "order", i)
          /\ \E j \in (i + 5)..Len(low) :
               /\ OccursAt(low, "#", j)
               /\ IsDigit(CharAt(low, j + 1))
               /\ \A k \in (i + 5)..(j - 1) : CharAt(low, k) # "\n"
      details == At(low, "tracking") \/ At(low, "delivery") \/ At(low, "shipping") \/ numbered
      \* sum of similarities in twentieths, times 0.2, over the count:
      \* (sum / 20) * 0.2 / n, as a multiple of 1 / (100 * n)
      n == Len(evidence)
      perCount == IF n = 0 THEN 1 ELSE n
  IN [times |-> 100 * perCount,
      value |->
        50 * perCount
        + (IF Len(orderData) > 0 THEN 30 * perCount ELSE 0)
        + (IF n > 0 THEN SumSimilarity(evidence) ELSE 0)
        - (IF Len(text) < 50 THEN 20 * perCount ELSE 0)
        - (IF marker THEN 30 * perCount ELSE 0)
        + (IF details THEN 10 * perCount ELSE 0)]

\* C18: the confidence of a reply the provider returned is the score of its
\* text (0.5, +0.3 with order data, +0.2 * mean similarity with evidence,
\* -0.2 under 50 characters, -0.3 with a placeholder marker, +0.1 with a
\* tracking, numbered-order, delivery or shipping mention), clamped to [0, 1],
\* and shouldEscalate is TRUE exactly when that confidence is below 0.7.
C18_ProviderReplyScored ==
  (GenDone /\ genOutcome[1].ok) =>
    LET s == SpecifiedScore(GenReply.response, genParams.orderData, genParams.similarResponses)
        clamped == IF s.value < 0 THEN 0 ELSE IF s.value > s.times THEN s.times ELSE s.value
    IN /\ GenReply.modelUsed = "gpt-4o"
       /\ GenReply.confidence * s.times = clamped * Unit
       /\ GenReply.shouldEscalate = (GenReply.confidence * 100 < 70 * Unit)

\* C18 witness: a reply with a placeholder marker scored with order data and
\* evidence of similarity 1 throughout: 0.5 + 0.3 + 0.2 - 0.3 = 0.7, which is
\* not below 0.7, so shouldEscalate is FALSE.
C18_Witness ==
  /\ GenDone /\ genOutcome[1].ok
  /\ includes(GenReply.response, "{{")
  /\ Len(genParams.orderData) > 0
  /\ Len(genParams.similarResponses) > 0
  /\ GenReply.confidence = Hundredths(70)
  /\ ~GenReply.shouldEscalate

\* a reply just under the threshold is escalated
C18_BelowThreshold ==
  /\ GenDone /\ genOutcome[1].ok
  /\ GenReply.confidence < Hundredths(70)
  /\ GenReply.confidence > Hundredths(60)
  /\ GenReply.shouldEscalate

(***************************************************************************)
(* Properties of the escalated branch of processEmail, checked under Spec. *)
(***************************************************************************)
\* the text generateFallbackResponse composes for the email worker p answers
FallbackTextFor(p) ==
  EscalationText[RequestParams(worker[p].email, worker[p].orderData,
                               worker[p].similarResponses, worker[p].category)]

C20_LookupFailuresAreAbsorbed ==
  \A p \in Workers :
    LET w == worker[p]
    IN /\ w.lookupFailed => w.orderData = <<>>
       /\ w.searchFailed => w.similarResponses = <<>>
       /\ (w.pc = "returned" /\ faults = 0) => ResultOf(w.call).success
       /\ (w.pc = "returned" /\ faults = 0 /\ (w.lookupFailed \/ w.searchFailed)) =>
            /\ ProcessedCall(w.call)
            /\ w.aiResponse # <<>>
            /\ w.validation # <<>>
            /\ ResultOf(w.call).escalated = w.shouldEscalate

\* C20 witness: the lookup by email and the search both failed, and the
\* invocation went through with a reply generated from the query alone.
C20_Witness ==
  \E p \in Workers :
    LET w == worker[p]
    IN /\ w.pc = "returned"
       /\ w.lookupFailed
       /\ w.searchFailed
       /\ ~Truthy(w.orderNumber)
       /\ ProcessedCall(w.call)
       /\ w.orderData = <<>>
       /\ w.similarResponses = <<>>
       /\ w.aiResponse # <<>>

\* the lookup by order number fails as well, and is absorbed
C20_ByNumber ==
  \E p \in Workers :
    LET w == worker[p]
    IN /\ w.pc = "returned"
       /\ w.lookupFailed
       /\ Truthy(w.orderNumber)
       /\ ProcessedCall(w.call)

(***************************************************************************)
(* Properties of processUnreadEmails, checked under SpecBatch.             *)
(***************************************************************************)
\* how often markAsRead was called for message id
MarkAsReadCalls(id) ==
  Cardinality({i \in 1..Len(batch.markAsRead) : batch.markAsRead[i] = id})

\* C21: every email fetched is counted once, as successful or as failed,
\* and markAsRead is called for it once, whatever processEmail returned: at
\* each turn of the loop successful + failed is the number of emails done,
\* and on return successful + failed = totalProcessed and
\* escalated <= successful.
C21_EachEmailAccountedOnce ==
  LET r == batch.results
      done == batch.index - 1
  IN (batch.pc \in {"loop", "returned"}) =>
       /\ r.totalProcessed = Len(batch.unreadEmails)
       /\ r.successful + r.failed = done
       /\ r.escalated <= r.successful
       /\ Len(r.errors) = r.failed
       /\ r.successful = Cardinality({k \in 1..done : calls[k].result[1].success})
       /\ r.escalated =
            Cardinality({k \in 1..done : calls[k].result[1].success /\ calls[k].result[1].escalated})
       /\ batch.markAsRead = SubSeq(batch.unreadEmails, 1, done)
       /\ \A k \in 1..done : MarkAsReadCalls(batch.unreadEmails[k]) = 1
       /\ batch.pc = "returned" => r.successful + r.failed = r.totalProcessed

\* C21 witness: a batch of two returned with one email failed (the database
\* rejected a call) and one successful, both handed to markAsRead.
C21_Witness ==
  /\ batch.pc = "returned"
  /\ batch.results.totalProcessed = 2
  /\ batch.results.successful = 1
  /\ batch.results.failed = 1
  /\ Len(batch.markAsRead) = 2

(***************************************************************************)
(* Properties of repeated and concurrent invocations, checked under        *)
(* SpecConc.                                                               *)
(***************************************************************************)
\* C22: when an invocation returns 'Email already processed' for a message
\* whose other invocations had all returned before it began, an AIResponse
\* for that message is stored: no message is answered 'already processed'
\* without a reply to show for it.
C22_AlreadyProcessedHasResponse ==
  \A j \in 1..Len(calls) :
    (/\ HasReturned(j)
     /\ ResultOf(j) = AlreadyProcessed
     /\ \A i \in 1..Len(calls) :
          (i # j /\ calls[i].email = calls[j].email) => i \in calls[j].after) =>
      ResponsesFor(calls[j].email) # {}

\* C23: whatever the interleaving of invocations for different messages, no
\* customer address has more than one Conversation, and every saved email of
\* that address is attached to that one.
C23_OneConversationPerAddress ==
  (\A i, j \in 1..Len(calls) : i # j => calls[i].email # calls[j].email) =>
    \A c \in conversations :
      /\ \A d \in conversations : d.customerEmail = c.customerEmail => d.id = c.id
      /\ \A row \in customerEmails :
           EmailOf(row.gmailMessageId).fromEmail = c.customerEmail =>
             row.conversationId = c.id

(***************************************************************************)
(* Properties of the stored AIResponse and of the result, checked under    *)
(* Spec.                                                                   *)
(***************************************************************************)
\* the reply generateFallbackResponse composes at lines 214-221 for the
\* email worker p answers
EscalationReplyFor(p) ==
  generateFallbackResponse(RequestParams(worker[p].email, worker[p].orderData,
                                         worker[p].similarResponses, worker[p].category),
                           "escalation")

\* the stored text is the text validateResponse judged (lines 201, 231)
StoredTextWasJudged(p) ==
  RowOf(aiResponses, worker[p].savedResponseId).responseText = worker[p].aiResponse[1].response

\* the stored text and the stored confidence belong to one reply: the
\* generated one or the one that replaced it
StoredPairOfOneReply(p) ==
  LET row == RowOf(aiResponses, worker[p].savedResponseId)
  IN \/ /\ row.responseText = worker[p].aiResponse[1].response
        /\ row.confidence = worker[p].aiResponse[1].confidence
     \/ /\ row.responseText = EscalationReplyFor(p).response
        /\ row.confidence = EscalationReplyFor(p).confidence

\* C24: the AIResponse row an invocation has saved holds the text that
\* validateResponse judged, and a confidence that was computed for that
\* text: text and confidence are never of two different replies.
C24_TextAndConfidenceOfOneReply ==
  \A p \in Workers :
    worker[p].savedResponseId # 0 =>
      /\ StoredTextWasJudged(p)
      /\ StoredPairOfOneReply(p)

\* C25: an invocation returns 'Automated response sent successfully' only
\* when sendReply answered true for its email: the reply is among those sent
\* and the AIResponse it stored has sentViaGmail = TRUE and sentAt set.
C25_ReportedSentOnlyIfSent ==
  \A p \in Workers :
    LET w == worker[p]
    IN (/\ w.pc = "returned"
        /\ HasReturned(w.call)
        /\ ResultOf(w.call).success
        /\ ResultOf(w.call).message = "Automated response sent successfully") =>
         /\ w.emailSent
         /\ RepliesFor(w.email) # {}
         /\ RowOf(aiResponses, w.savedResponseId).sentViaGmail
         /\ RowOf(aiResponses, w.savedResponseId).sentAt

(***************************************************************************)
(* The score of validateResponse, checked under SpecValidate.              *)
(***************************************************************************)
\* C26: a text whose score is below 0.6 is invalid, so the third disjunct of
\* the escalation rule adds nothing: a text has at most 2 issues and 3
\* warnings, a valid text scores at least 0.7, every text scores at least
\* 0.1, and the score is the unclamped sum.
C26_LowScoreImpliesInvalid ==
  ValDone =>
    /\ ValResult.score < Hundredths(60) => ~ValResult.isValid
    /\ Len(ValResult.issues) <= 2 /\ Len(ValResult.warnings) <= 3
    /\ ValResult.isValid => ValResult.score >= Hundredths(70)
    /\ ValResult.score >= Hundredths(10)
    /\ ValResult.score = Unit - Len(ValResult.issues) * Hundredths(30)
                              - Len(ValResult.warnings) * Hundredths(10)

\* C26 witness: a text with two issues and two warnings, scored 0.2 and
\* invalid.
C26_Witness ==
  /\ ValDone
  /\ Len(ValResult.issues) = 2
  /\ Len(ValResult.warnings) = 2
  /\ ValResult.score = Hundredths(20)
  /\ ~ValResult.isValid

(***************************************************************************)
(* What the fallback reply depends on, checked under SpecGen.              *)
(***************************************************************************)
\* the reply is a fallback's
FallbackReply == GenDone /\ GenReply.modelUsed = "intelligent_fallback"

\* the fallback reply for the query, the name and the order data of the
\* request, with no category, under failure class errorType
ReferenceFallback(errorType) ==
  generateFallbackResponse([genParams EXCEPT !.category = NoString], errorType)

\* C27: whatever the failure class and the category of the request, the
\* text, the confidence and shouldEscalate of a fallback reply are those of
\* the fallback for the same query, name and order data with no category
\* under the default class 'unknown', so they are the same for every class
\* and category; of its fields only the reasoning varies, and it is the
\* reasoning of its failure class whatever the category.
C27_FallbackIndependentOfFailureClass ==
  FallbackReply =>
    /\ \E other \in {ReferenceFallback("unknown")} :
         /\ other.response = GenReply.response
         /\ other.confidence = GenReply.confidence
         /\ other.shouldEscalate = GenReply.shouldEscalate
         /\ other.promptUsed = GenReply.promptUsed
         /\ other.modelUsed = GenReply.modelUsed
         /\ other.tokensUsed = GenReply.tokensUsed
         /\ other.reasoning # GenReply.reasoning
    /\ ReferenceFallback(ErrorType(genOutcome[1])) = GenReply

\* C27 witness: a fallback reply after the provider was rate limited, for a
\* request with a category, a name and order data, its text composed from
\* the order.
C27_Witness ==
  /\ FallbackReply
  /\ ErrorType(genOutcome[1]) = "rate_limit"
  /\ genParams.category = Some("ORDER_STATUS")
  /\ genParams.customerName = Some("Sam")
  /\ genParams.orderData = <<ShippedOrder>>
  /\ includes(GenReply.response, "BLG-2024-456")
  /\ ~GenReply.shouldEscalate

\* the urgency terms of the specification; a query contains one when it
\* holds it as a word
SpecifiedUrgencyTerms == {"urgent", "asap", "immediately", "emergency", "help"}
ContainsUrgencyTerm(query) == MatchesWord(toLowerCase(query), SpecifiedUrgencyTerms)

UnsupportedProviderReply ==
  /\ GenDone
  /\ genOutcome[1].ok
  /\ GenReply.modelUsed = "gpt-4o"
  /\ Len(genParams.orderData) = 0
  /\ Len(genParams.similarResponses) = 0

\* C29: a reply of the provider to a request with no order data and no
\* evidence has a confidence of at most 0.6 (the base 0.5 and at most the
\* detail bonus 0.1), whatever its text, and shouldEscalate = TRUE.
C29_UnsupportedReplyEscalates ==
  UnsupportedProviderReply =>
    /\ GenReply.confidence <= Hundredths(60)
    /\ GenReply.shouldEscalate

\* C29 witness: such a reply of 50 characters or more, without a marker and
\* with a tracking mention, scored 0.6 and escalated.
C29_Witness ==
  /\ UnsupportedProviderReply
  /\ GenReply.response = LongReply
  /\ GenReply.confidence = Hundredths(60)
  /\ GenReply.shouldEscalate

====
